---- MODULE Spec2Model ----
(***************************************************************************)
(* Model of the muxic playback core: the AudioPlayer engine, the beep      *)
(* speaker callback that pulls sample blocks from it, the Bubble Tea       *)
(* update loop with its asynchronously executed commands, and the Queue.   *)
(*                                                                         *)
(* The repository holds several generations of the same components.  Each  *)
(* specification below drives one generation:                              *)
(*   Spec        update.go + commands.go (message based commands) over     *)
(*               the AudioPlayer of audio_player.go:162-390               *)
(*   SpecVolume  the volume keys and SetVolumeCmd of the same generation   *)
(*   SpecQueue   the Queue component (unnamed/part_002:163-258)            *)
(*   SpecLegacy  the Update loop of unnamed/part_008 with the commands of  *)
(*               commands.go:384-809 that mutate the model directly        *)
(*   SpecEngine  the AudioPlayer methods called directly                   *)
(*   SpecSeek    the skip commands, playbackSeekedMsg and                  *)
(*               AudioPlayer.SeekTo while tracks are started and streamed  *)
(*   SpecSetVolume  AudioPlayer.SetVolume called directly, through the     *)
(*               volume keys and through VolumeUpCmd / VolumeDownCmd       *)
(*   SpecSeekCalls  the skip commands and both generations of SeekTo on a  *)
(*               player that is started, stopped and started again         *)
(*   SpecTick    the tickMsg of update.go while a track plays and stops    *)
(*   SpecPlaylist  the PlaylistManager (playlist.go)                       *)
(*   SpecScan    the directory scan GetAudioRows (util/audio.go)           *)
(*   SpecReplace  Play and Stop of audio_player.go:41-115 called directly  *)
(*   SpecPlayerLive  the AudioPlayer of audio_player.go:206-300 with its   *)
(*               callbacks and its waiting Play under weak fairness        *)
(*   SpecLegacySkip  SkipForwardCmd(m) and SkipBackwardCmd(m)              *)
(*   SpecVolumePlay  SetVolume between tracks started one after another    *)
(*   SpecAddTrack  the queue messages of update.go while a track plays     *)
(*   SpecActive  the PlaylistManager with its active playlist and cursor   *)
(***************************************************************************)
EXTENDS Integers, Sequences, FiniteSets, TLC

(***************************************************************************)
(* Bounds of the model.                                                    *)
(***************************************************************************)
MaxOpens == 2        \* decoder streams opened in one run of SpecEngine
MaxLoopPlays == 1    \* tracks started in one run of Spec, SpecVolume, SpecLegacy
LongLen == 12        \* samples in track 1
ShortLen == 3        \* samples in track 2
BlockSize == 4       \* samples the speaker pulls per callback
MaxPending == 1      \* commands and messages in flight in Spec and SpecLegacy
MaxStarts == 2       \* start-playback decisions issued in one run of SpecAddTrack
MaxVolPending == 2   \* commands and messages in flight in SpecVolume
MaxVolKeys == 3      \* volume keys pressed and SetVolume calls made in one run
MaxQueueLen == 3     \* entries in the queue in SpecQueue
MaxLegacyQueue == 2  \* entries in the queue in SpecLegacy
MaxAdvances == 2     \* cap of the auto-advance counter
MaxPlaylists == 2    \* playlists created in one run of SpecPlaylist
MaxPlaylistTracks == 4  \* tracks in all playlists together in SpecPlaylist
MaxEntries == 3      \* entries of the directory in SpecScan
SampleRate == 1      \* samples per second of every track
SampleCap == LongLen + BlockSize  \* cap on the position counter

(***************************************************************************)
(* Program constants.                                                      *)
(***************************************************************************)
SkipSeconds == 10
DefaultVolumePercent == 50
VolumeStep == 5
minVolume == 0
maxVolume == 100
Nil == 0
Unity == -1          \* the gain 0.0 a Volume starts with
MaxGain == 120       \* maxGainDB / 10, in hundredths of the gain scale
Second == 1000       \* time.Second, counted in milliseconds

Library == {1, 2}
TrackLen(t) == IF t = 1 THEN LongLen ELSE ShortLen
StreamIds == 1..MaxOpens

Min(a, b) == IF a < b THEN a ELSE b

\* time.Duration(samples) * time.Second / time.Duration(SampleRate)
DurationOf(samples) == (samples * Second) \div SampleRate
RemoveAt(s, i) == SubSeq(s, 1, i - 1) \o SubSeq(s, i + 1, Len(s))

VARIABLES
  \* AudioPlayer fields
  CurrentStreamer,   \* Nil or the id of the decoder stream the player refers to
  Playing,
  SamplesPlayed,
  PlayedTime,        \* in units of 1/Second of a second
  TotalSamples,
  Ctrl,              \* Nil or the id of the beep.Ctrl object created by Play
  doneChan,          \* Nil or the id of the done channel created by Play
  closeOnceDone,     \* whether the current closeOnce has fired
  Volume,            \* Nil or the id of the effects.Volume object created by Play
  Silent,            \* Volume.Silent
  Gain,              \* Volume.Volume: Unity, MaxGain or the percent below 100
                     \* it was computed from
  CurrentVolumePercent,
  \* decoder streams and speaker
  nextId,            \* number of streams opened so far
  open,              \* ids of the decoder streams that are open
  slen,              \* stream id -> total samples
  pos,               \* stream id -> decoder position
  ctrlPaused,        \* stream id -> Paused flag of its beep.Ctrl
  mixer,             \* ids of the streamers the speaker is playing
  doneClosed,        \* ids of the done channels that are closed
  playWait,          \* ids of the done channels a Play call is blocked on
  cbPc,              \* the speaker mutex: "idle" when free, "mid" while the
                     \* callback holds it between its read and its write,
                     \* "held" once a command returned without unlocking
  cb,                \* the block the callback is accounting for
  \* update loop
  cmds,              \* commands returned by Update, not yet executed
  msgs,              \* messages produced by commands, not yet delivered
  Error,             \* whether m.Error is set
  Progress,          \* percent shown by the progress bar
  CurrentVolume,     \* m.CurrentVolume
  tickPending,       \* a tickMsg is scheduled
  \* Queue fields
  Tracks,
  CurrentIndex,
  \* PlaylistManager fields
  Playlists,         \* the playlists, each with its ID and its Tracks
  lastID,
  ActivePlaylist,    \* ID of the playlist ActivePlaylist points to, or Nil
  ActiveTrackIdx,
  \* GetAudioRows: one scan of a directory
  scanPc,            \* "idle", "launch", "collect", "done" or "failed"
  dirEntries,        \* what os.ReadDir returned, one kind per entry
  scanI,             \* loop index of the loop that starts the workers
  wg,                \* counter of the sync.WaitGroup
  workerPc,          \* entry -> "none", "read", "send" or "done"
  workerRow,         \* entry -> Nil or the row its worker has read
  results,           \* the results channel: what was sent and not yet received
  resultsClosed,     \* the results channel is closed
  tempRows,          \* entry -> tempRows and tempPaths of the entry
  audioRows,         \* rows and paths GetAudioRows returned, side by side
  metadataCache,     \* path -> cached row
  \* process
  panicked,          \* the Go runtime has panicked
  \* history
  lastOp,            \* name of the last operation
  prevIndex,         \* CurrentIndex before the last Queue operation
  returned,          \* Nil or the track the last Queue operation returned
  issuedVolume,      \* level after the volume keys pressed so far, one by one
  lastIssued,        \* level asked for by the last volume key
  volKeys,           \* number of volume keys pressed and SetVolume calls made
  advances,          \* auto-advances of the cursor since the track started
  received           \* entries in the order their results were received

enginePlay == <<CurrentStreamer, Playing, SamplesPlayed, PlayedTime, TotalSamples>>
engineChan == <<Ctrl, doneChan, closeOnceDone>>
engineVol == <<Volume, Silent, Gain, CurrentVolumePercent>>
engineVars == <<enginePlay, engineChan, engineVol>>
streamVars == <<nextId, open, slen, pos, ctrlPaused, mixer, doneClosed, playWait>>
cbVars == <<cbPc, cb>>
playerVars == <<engineVars, streamVars, cbVars, panicked>>
loopVars == <<cmds, msgs, Error, Progress, CurrentVolume, tickPending>>
queueVars == <<Tracks, CurrentIndex>>
queueHist == <<prevIndex, returned>>
volHist == <<issuedVolume, lastIssued, volKeys>>
histVars == <<queueHist, volHist, advances>>
activeVars == <<ActivePlaylist, ActiveTrackIdx>>
playlistVars == <<Playlists, lastID, activeVars>>
scanVars == <<scanPc, dirEntries, scanI, wg, workerPc, workerRow, results,
              resultsClosed, tempRows, audioRows, metadataCache, received>>
libVars == <<playlistVars, scanVars>>
vars == <<playerVars, loopVars, queueVars, histVars, libVars, lastOp>>

NoBlock == [stream |-> Nil, base |-> 0, n |-> 0, eof |-> FALSE]

Init ==
  /\ CurrentStreamer = Nil
  /\ Playing = FALSE
  /\ SamplesPlayed = 0
  /\ PlayedTime = 0
  /\ TotalSamples = 0
  /\ Ctrl = Nil
  /\ doneChan = Nil
  /\ closeOnceDone = FALSE
  /\ Volume = Nil
  /\ Silent = FALSE
  /\ Gain = Unity
  /\ CurrentVolumePercent = DefaultVolumePercent
  /\ nextId = 0
  /\ open = {}
  /\ slen = [s \in StreamIds |-> 0]
  /\ pos = [s \in StreamIds |-> 0]
  /\ ctrlPaused = [s \in StreamIds |-> FALSE]
  /\ mixer = {}
  /\ doneClosed = {}
  /\ playWait = {}
  /\ cbPc = "idle"
  /\ cb = NoBlock
  /\ cmds = <<>>
  /\ msgs = <<>>
  /\ Error = FALSE
  /\ Progress = 0
  /\ CurrentVolume = 0
  /\ tickPending = TRUE
  /\ Tracks = <<>>
  /\ CurrentIndex = 0
  /\ Playlists = <<>>
  /\ lastID = 0
  /\ ActivePlaylist = Nil
  /\ ActiveTrackIdx = 0
  /\ scanPc = "idle"
  /\ dirEntries = <<>>
  /\ scanI = 0
  /\ wg = 0
  /\ workerPc = <<>>
  /\ workerRow = <<>>
  /\ results = <<>>
  /\ resultsClosed = FALSE
  /\ tempRows = <<>>
  /\ audioRows = <<>>
  /\ metadataCache = <<>>
  /\ received = <<>>
  /\ panicked = FALSE
  /\ lastOp = "init"
  /\ prevIndex = 0
  /\ returned = Nil
  /\ issuedVolume = DefaultVolumePercent
  /\ lastIssued = DefaultVolumePercent
  /\ volKeys = 0
  /\ advances = 0

(***************************************************************************)
(* AudioPlayer (audio_player.go:162-390)                                   *)
(***************************************************************************)
IsPlaying == Playing /\ Ctrl # Nil /\ ~ctrlPaused[Ctrl]

\* A closed decoder no longer reports a position or a length.
Forget(f, s) == [f EXCEPT ![s] = 0]

\* The effects of AudioPlayer.Stop on the streams, the speaker and the done
\* channel.  Closing a channel that is already closed panics.
StopPos == IF CurrentStreamer # Nil THEN Forget(pos, CurrentStreamer) ELSE pos
StopLen == IF CurrentStreamer # Nil THEN Forget(slen, CurrentStreamer) ELSE slen
StopOpen == IF CurrentStreamer # Nil THEN open \ {CurrentStreamer} ELSE open
StopMixer == IF CurrentStreamer # Nil THEN {} ELSE mixer
StopClosesDone_NoOnce == doneChan # Nil
StopClosesDone == doneChan # Nil /\ ~closeOnceDone
StopDoneClosed == IF StopClosesDone THEN doneClosed \cup {doneChan} ELSE doneClosed
StopCloseOnce == IF doneChan # Nil THEN TRUE ELSE closeOnceDone
StopPanics == StopClosesDone /\ doneChan \in doneClosed

\* AudioPlayer.Stop.  speaker.Clear() takes the speaker lock.
AudioPlayerStop ==
  /\ CurrentStreamer # Nil => cbPc = "idle"
  /\ open' = StopOpen
  /\ mixer' = StopMixer
  /\ CurrentStreamer' = Nil
  /\ Playing' = FALSE
  /\ SamplesPlayed' = 0
  /\ PlayedTime' = 0
  /\ TotalSamples' = 0
  /\ doneClosed' = StopDoneClosed
  /\ closeOnceDone' = StopCloseOnce
  /\ panicked' = StopPanics
  /\ pos' = StopPos
  /\ slen' = StopLen
  /\ UNCHANGED <<Ctrl, doneChan, engineVol, nextId, ctrlPaused, playWait, cbVars>>

\* AudioPlayer.Play up to the wait on the done channel.  openOk is the
\* outcome of util.OpenAudioFile.
PlayStart(t, openOk) ==
  LET stopFirst == IsPlaying
      s == nextId + 1
      openAfter == IF stopFirst THEN StopOpen ELSE open
      mixerAfter == IF stopFirst THEN StopMixer ELSE mixer
      doneAfter == IF stopFirst THEN StopDoneClosed ELSE doneClosed
      posAfter == IF stopFirst THEN StopPos ELSE pos
      lenAfter == IF stopFirst THEN StopLen ELSE slen
  IN
  /\ cbPc = "idle"
  /\ panicked' = (stopFirst /\ StopPanics)
  /\ IF openOk
       THEN /\ nextId < MaxOpens
            /\ CurrentStreamer' = s
            /\ TotalSamples' = TrackLen(t)
            /\ SamplesPlayed' = 0
            /\ PlayedTime' = 0
            /\ doneChan' = s
            /\ closeOnceDone' = FALSE
            /\ Volume' = s
            /\ Silent' = FALSE
            /\ Ctrl' = s
            /\ ctrlPaused' = [ctrlPaused EXCEPT ![s] = FALSE]
            /\ Playing' = TRUE
            /\ nextId' = s
            /\ open' = openAfter \cup {s}
            /\ slen' = [lenAfter EXCEPT ![s] = TrackLen(t)]
            /\ pos' = [posAfter EXCEPT ![s] = 0]
            /\ mixer' = mixerAfter \cup {s}
            /\ doneClosed' = doneAfter
            /\ playWait' = playWait \cup {s}
            /\ UNCHANGED <<Gain, CurrentVolumePercent, cbVars>>
       ELSE /\ IF stopFirst
                 THEN /\ CurrentStreamer' = Nil
                      /\ Playing' = FALSE
                      /\ SamplesPlayed' = 0
                      /\ PlayedTime' = 0
                      /\ TotalSamples' = 0
                      /\ closeOnceDone' = StopCloseOnce
                 ELSE UNCHANGED <<enginePlay, closeOnceDone>>
            /\ open' = openAfter
            /\ mixer' = mixerAfter
            /\ doneClosed' = doneAfter
            /\ pos' = posAfter
            /\ slen' = lenAfter
            /\ UNCHANGED <<Ctrl, doneChan, engineVol, nextId, ctrlPaused, playWait, cbVars>>

\* AudioPlayer.Play returning: the receive on its done channel completes.
PlayReturn(s) ==
  /\ s \in playWait
  /\ s \in doneClosed
  /\ playWait' = playWait \ {s}
  /\ UNCHANGED <<engineVars, nextId, open, slen, pos, ctrlPaused, mixer, doneClosed>>
  /\ UNCHANGED <<cbVars, panicked>>

\* AudioPlayer.Pause
AudioPlayerPause ==
  /\ IF Ctrl # Nil
       THEN /\ ctrlPaused' = [ctrlPaused EXCEPT ![Ctrl] = TRUE]
            /\ Playing' = FALSE
       ELSE UNCHANGED <<ctrlPaused, Playing>>
  /\ UNCHANGED <<CurrentStreamer, SamplesPlayed, PlayedTime, TotalSamples, engineChan, engineVol>>
  /\ UNCHANGED <<nextId, open, slen, pos, mixer, doneClosed, playWait, cbVars, panicked>>

(***************************************************************************)
(* The speaker callback.  The speaker holds its mutex while it streams, so *)
(* operations that lock the speaker wait for cbPc = "idle"; writes made    *)
(* without the lock do not.  beep.Seq asks the decoder again when a block  *)
(* came back short, so a short last block and the end of the stream are    *)
(* handled in the same callback; a stream that ended on a full block is    *)
(* found drained by the next callback.                                     *)
(***************************************************************************)
\* progressStreamer: n, ok = streamer.Stream(samples), then the read of
\* a.SamplesPlayed for "+= n".
CallbackRead(s) ==
  /\ cbPc = "idle"
  /\ s \in mixer
  /\ ~ctrlPaused[s]
  /\ pos[s] < slen[s]
  /\ LET n == Min(BlockSize, slen[s] - pos[s]) IN
       /\ SamplesPlayed + n <= SampleCap
       /\ pos' = [pos EXCEPT ![s] = pos[s] + n]
       /\ cb' = [stream |-> s, base |-> SamplesPlayed, n |-> n, eof |-> n < BlockSize]
  /\ cbPc' = "mid"
  /\ UNCHANGED <<engineVars, nextId, open, slen, ctrlPaused, mixer, doneClosed, playWait>>
  /\ UNCHANGED panicked

\* progressStreamer: the write of a.SamplesPlayed; after a short block,
\* callbackStreamer as well.
CallbackWrite ==
  /\ cbPc = "mid"
  /\ SamplesPlayed' = cb.base + cb.n
  /\ PlayedTime' = DurationOf(cb.base + cb.n)
  /\ cbPc' = "idle"
  /\ cb' = NoBlock
  /\ IF cb.eof
       THEN /\ Playing' = FALSE
            /\ doneClosed' = IF closeOnceDone THEN doneClosed
                                              ELSE doneClosed \cup {doneChan}
            /\ closeOnceDone' = TRUE
            /\ mixer' = mixer \ {cb.stream}
       ELSE UNCHANGED <<Playing, doneClosed, closeOnceDone, mixer>>
  /\ UNCHANGED <<CurrentStreamer, TotalSamples, Ctrl, doneChan, engineVol>>
  /\ UNCHANGED <<nextId, open, slen, pos, ctrlPaused, playWait, panicked>>

\* callbackStreamer: the stream is drained, beep.Seq runs the callback and
\* the speaker drops the finished streamer.
EndOfStream(s) ==
  /\ cbPc = "idle"
  /\ s \in mixer
  /\ ~ctrlPaused[s]
  /\ pos[s] = slen[s]
  /\ Playing' = FALSE
  /\ doneClosed' = IF closeOnceDone THEN doneClosed ELSE doneClosed \cup {doneChan}
  /\ closeOnceDone' = TRUE
  /\ mixer' = mixer \ {s}
  /\ UNCHANGED <<CurrentStreamer, SamplesPlayed, PlayedTime, TotalSamples, Ctrl, doneChan>>
  /\ UNCHANGED engineVol
  /\ UNCHANGED <<nextId, open, slen, pos, ctrlPaused, playWait, cbVars, panicked>>

(***************************************************************************)
(* Commands and messages of the update loop (commands.go:1-383,            *)
(* update.go).  Update returns a command; the Bubble Tea runtime runs each *)
(* command in its own goroutine and sends the message it returns back to   *)
(* Update, so neither commands nor messages keep their order of issue.     *)
(***************************************************************************)
Cmd(type, arg) == [type |-> type, arg |-> arg]
Msg(type, arg) == [type |-> type, arg |-> arg]
InFlight == Len(cmds) + Len(msgs)
modelVars == <<Error, Progress, CurrentVolume, tickPending>>

\* handleKeyPress, case Pause
KeyPause ==
  /\ Playing
  /\ cmds' = Append(cmds, Cmd("PauseCmd", 0))
  /\ UNCHANGED <<msgs, modelVars, playerVars>>

\* handleKeyPress, case Pause, when nothing is playing: the key is dropped.
KeyPauseIgnored ==
  /\ ~Playing
  /\ UNCHANGED <<cmds, msgs, modelVars, playerVars>>

\* handleKeyPress, case Stop
KeyStop ==
  /\ Playing
  /\ cmds' = Append(cmds, Cmd("StopCmd", 0))
  /\ UNCHANGED <<msgs, modelVars, playerVars>>

\* handleKeyPress, case Stop, when nothing is playing: the key is dropped.
KeyStopIgnored ==
  /\ ~Playing
  /\ UNCHANGED <<cmds, msgs, modelVars, playerVars>>

\* handleKeyPress, case SkipForward
KeySkipForward ==
  /\ Playing
  /\ cmds' = Append(cmds, Cmd("SkipForwardCmd", 0))
  /\ UNCHANGED <<msgs, modelVars, playerVars>>

\* handleKeyPress, case SkipBackward
KeySkipBackward ==
  /\ Playing
  /\ cmds' = Append(cmds, Cmd("SkipBackwardCmd", 0))
  /\ UNCHANGED <<msgs, modelVars, playerVars>>

\* PauseCmd: lock the speaker, set Ctrl.Paused.
RunPauseCmd(i) ==
  /\ cmds[i].type = "PauseCmd"
  /\ cmds' = RemoveAt(cmds, i)
  /\ IF Ctrl = Nil
       THEN /\ msgs' = Append(msgs, Msg("error", 0))
            /\ UNCHANGED ctrlPaused
       ELSE /\ cbPc = "idle"
            /\ ctrlPaused' = [ctrlPaused EXCEPT ![Ctrl] = TRUE]
            /\ msgs' = Append(msgs, Msg("pauseMsg", 0))
  /\ UNCHANGED <<modelVars, engineVars, cbVars, panicked>>
  /\ UNCHANGED <<nextId, open, slen, pos, mixer, doneClosed, playWait>>

\* StopCmd: speaker.Clear(), then close the stream.  closeOk is the outcome
\* of Close on an open stream; Close on a closed stream fails.
RunStopCmd(i, closeOk) ==
  /\ cmds[i].type = "StopCmd"
  /\ cbPc = "idle"
  /\ cmds' = RemoveAt(cmds, i)
  /\ mixer' = {}
  /\ IF CurrentStreamer = Nil
       THEN /\ msgs' = Append(msgs, Msg("stopMsg", 0))
            /\ UNCHANGED <<open, pos, slen>>
       ELSE /\ open' = open \ {CurrentStreamer}
            /\ pos' = Forget(pos, CurrentStreamer)
            /\ slen' = Forget(slen, CurrentStreamer)
            /\ IF closeOk /\ CurrentStreamer \in open
                 THEN msgs' = Append(msgs, Msg("stopMsg", 0))
                 ELSE msgs' = Append(msgs, Msg("stopError", 0))
  /\ UNCHANGED <<modelVars, engineVars, cbVars, panicked>>
  /\ UNCHANGED <<nextId, ctrlPaused, doneClosed, playWait>>

\* The position SkipForwardCmd seeks to.
SkipForwardPos(currentPos, streamerLen) ==
  LET newPos == currentPos + SkipSeconds * SampleRate
  IN IF newPos > streamerLen THEN streamerLen ELSE newPos

\* The position SkipBackwardCmd seeks to.
SkipBackwardPos(currentPos) ==
  LET newPos == currentPos - SkipSeconds * SampleRate
  IN IF newPos < 0 THEN 0 ELSE newPos

\* Seek of the decoder.  It refuses a position outside [0, Len()] and any
\* position on a closed stream; seekOk is the outcome on an accepted
\* position.
SeekAccepted(s, samplePos, seekOk) ==
  seekOk /\ s \in open /\ 0 <= samplePos /\ samplePos <= slen[s]

\* "if err := ...Seek(newPos); err != nil { return err }"
SeekFailed_Ignored(accepted) == FALSE
SeekFailed(accepted) == ~accepted

\* SkipForwardCmd / SkipBackwardCmd: under the speaker lock, seek the
\* stream and report the new position.
RunSkipCmd(i, seekOk) ==
  /\ cmds[i].type \in {"SkipForwardCmd", "SkipBackwardCmd"}
  /\ cmds' = RemoveAt(cmds, i)
  /\ IF CurrentStreamer = Nil
       THEN /\ msgs' = Append(msgs, Msg("error", 0))
            /\ UNCHANGED pos
       ELSE LET s == CurrentStreamer
                newPos == IF cmds[i].type = "SkipForwardCmd"
                            THEN SkipForwardPos(pos[s], slen[s])
                            ELSE SkipBackwardPos(pos[s])
            IN /\ cbPc = "idle"
               /\ IF SeekFailed(SeekAccepted(s, newPos, seekOk))
                    THEN /\ msgs' = Append(msgs, Msg("error", 0))
                         /\ UNCHANGED pos
                    ELSE /\ pos' = [pos EXCEPT ![s] = newPos]
                         /\ msgs' = Append(msgs, Msg("playbackSeekedMsg", newPos))
  /\ UNCHANGED <<modelVars, engineVars, cbVars, panicked>>
  /\ UNCHANGED <<nextId, open, slen, ctrlPaused, mixer, doneClosed, playWait>>

IsErrorMsg(m) == m.type \in {"error", "stopError"}

\* Update, msg.(error)
UpdateError(i) ==
  /\ IsErrorMsg(msgs[i])
  /\ msgs' = RemoveAt(msgs, i)
  /\ Error' = TRUE
  /\ UNCHANGED <<cmds, Progress, CurrentVolume, tickPending, playerVars>>

\* Update, case pauseMsg
UpdatePauseMsg(i) ==
  /\ msgs[i].type = "pauseMsg"
  /\ msgs' = RemoveAt(msgs, i)
  /\ Playing' = FALSE
  /\ UNCHANGED <<CurrentStreamer, SamplesPlayed, PlayedTime, TotalSamples, engineChan, engineVol>>
  /\ UNCHANGED <<cmds, modelVars, streamVars, cbVars, panicked>>

\* Update, case stopMsg
UpdateStopMsg(i) ==
  /\ msgs[i].type = "stopMsg"
  /\ msgs' = RemoveAt(msgs, i)
  /\ Playing' = FALSE
  /\ CurrentStreamer' = Nil
  /\ SamplesPlayed' = 0
  /\ PlayedTime' = 0
  /\ Progress' = 0
  /\ UNCHANGED <<TotalSamples, engineChan, engineVol>>
  /\ UNCHANGED <<cmds, Error, CurrentVolume, tickPending, streamVars, cbVars, panicked>>

\* Update, case playbackSeekedMsg.  The message carries newPosition; its
\* newPlayedTime is the duration the command computed from newPosition.
UpdatePlaybackSeekedMsg(i) ==
  /\ msgs[i].type = "playbackSeekedMsg"
  /\ msgs' = RemoveAt(msgs, i)
  /\ SamplesPlayed' = msgs[i].arg
  /\ PlayedTime' = DurationOf(msgs[i].arg)
  /\ UNCHANGED <<CurrentStreamer, Playing, TotalSamples, engineChan, engineVol>>
  /\ UNCHANGED <<cmds, modelVars, streamVars, cbVars, panicked>>

(***************************************************************************)
(* Spec: the message based update loop over the AudioPlayer.               *)
(***************************************************************************)
idleLoop == <<loopVars, queueVars, histVars, libVars>>
idleRest == <<queueVars, histVars, libVars>>

Play ==
  /\ ~panicked
  /\ nextId < MaxLoopPlays
  /\ \E t \in Library, openOk \in BOOLEAN :
       /\ PlayStart(t, openOk)
       /\ lastOp' = IF openOk THEN "Play" ELSE "PlayFailed"
  /\ UNCHANGED idleLoop
PlayReturns ==
  /\ ~panicked
  /\ \E s \in StreamIds : PlayReturn(s)
  /\ lastOp' = "PlayReturn"
  /\ UNCHANGED idleLoop
StreamBlock ==
  /\ ~panicked
  /\ \E s \in StreamIds : CallbackRead(s)
  /\ lastOp' = "CallbackRead"
  /\ UNCHANGED idleLoop
CountBlock ==
  /\ ~panicked
  /\ CallbackWrite
  /\ lastOp' = "CallbackWrite"
  /\ UNCHANGED idleLoop
StreamEnds ==
  /\ ~panicked
  /\ \E s \in StreamIds : EndOfStream(s)
  /\ lastOp' = "EndOfStream"
  /\ UNCHANGED idleLoop
PressPause ==
  /\ ~panicked
  /\ InFlight < MaxPending
  /\ KeyPause
  /\ lastOp' = "KeyPause"
  /\ UNCHANGED idleRest
PressPauseIgnored ==
  /\ ~panicked
  /\ KeyPauseIgnored
  /\ lastOp' = "KeyPauseIgnored"
  /\ UNCHANGED idleRest
PressStop ==
  /\ ~panicked
  /\ InFlight < MaxPending
  /\ KeyStop
  /\ lastOp' = "KeyStop"
  /\ UNCHANGED idleRest
PressStopIgnored ==
  /\ ~panicked
  /\ KeyStopIgnored
  /\ lastOp' = "KeyStopIgnored"
  /\ UNCHANGED idleRest
PressSkipForward ==
  /\ ~panicked
  /\ InFlight < MaxPending
  /\ KeySkipForward
  /\ lastOp' = "KeySkipForward"
  /\ UNCHANGED idleRest
PressSkipBackward ==
  /\ ~panicked
  /\ InFlight < MaxPending
  /\ KeySkipBackward
  /\ lastOp' = "KeySkipBackward"
  /\ UNCHANGED idleRest
ExecPauseCmd ==
  /\ ~panicked
  /\ \E i \in 1..Len(cmds) : RunPauseCmd(i)
  /\ lastOp' = "PauseCmd"
  /\ UNCHANGED idleRest
ExecStopCmd ==
  /\ ~panicked
  /\ \E i \in 1..Len(cmds), closeOk \in BOOLEAN : RunStopCmd(i, closeOk)
  /\ lastOp' = "StopCmd"
  /\ UNCHANGED idleRest
ExecSkipCmd ==
  /\ ~panicked
  /\ \E i \in 1..Len(cmds), seekOk \in BOOLEAN :
       /\ RunSkipCmd(i, seekOk)
       /\ lastOp' = IF CurrentStreamer = Nil THEN "SkipCmdNoPlayback"
                    ELSE IF seekOk /\ CurrentStreamer \in open THEN "SkipCmd"
                    ELSE "SkipCmdSeekError"
  /\ UNCHANGED idleRest
HandleError ==
  /\ ~panicked
  /\ \E i \in 1..Len(msgs) : UpdateError(i) /\ lastOp' = msgs[i].type
  /\ UNCHANGED idleRest
HandlePauseMsg ==
  /\ ~panicked
  /\ \E i \in 1..Len(msgs) : UpdatePauseMsg(i)
  /\ lastOp' = "pauseMsg"
  /\ UNCHANGED idleRest
HandleStopMsg ==
  /\ ~panicked
  /\ \E i \in 1..Len(msgs) : UpdateStopMsg(i)
  /\ lastOp' = "stopMsg"
  /\ UNCHANGED idleRest
HandlePlaybackSeekedMsg ==
  /\ ~panicked
  /\ \E i \in 1..Len(msgs) : UpdatePlaybackSeekedMsg(i)
  /\ lastOp' = "playbackSeekedMsg"
  /\ UNCHANGED idleRest

Next ==
  \/ Play
  \/ PlayReturns
  \/ StreamBlock
  \/ CountBlock
  \/ StreamEnds
  \/ PressPause
  \/ PressPauseIgnored
  \/ PressStop
  \/ PressStopIgnored
  \/ PressSkipForward
  \/ PressSkipBackward
  \/ ExecPauseCmd
  \/ ExecStopCmd
  \/ ExecSkipCmd
  \/ HandleError
  \/ HandlePauseMsg
  \/ HandleStopMsg
  \/ HandlePlaybackSeekedMsg

Spec == Init /\ [][Next]_vars

(***************************************************************************)
(* Properties of Spec.                                                     *)
(***************************************************************************)
\* C1: the playback position stays within the track at every moment:
\* 0 <= samplesPlayed <= totalSamples, whatever the interleaving of the
\* speaker callback with Play, Stop and the skip commands.
C1_PositionWithinTrack == 0 <= SamplesPlayed /\ SamplesPlayed <= TotalSamples

\* C6: Play returns as soon as audio output has started: no call to Play
\* is left waiting for the end of the track or for a Stop.
C6_PlayReturnsAtOnce == \A s \in playWait : s \in doneClosed

\* C7: accesses to the playback state are serialized: between the
\* callback's read of samplesPlayed and its write of the incremented value
\* no control operation writes samplesPlayed, so no update is lost.
C7_SerializedPosition == cbPc = "mid" => SamplesPlayed = cb.base

\* C9: once a Stop has been processed the engine is stopped: no current
\* stream, samplesPlayed = 0, totalSamples = 0 and not playing, also when
\* closing the stream reported an error.
C9_StoppedAfterStop ==
  lastOp \in {"stopMsg", "stopError"} =>
    /\ CurrentStreamer = Nil
    /\ SamplesPlayed = 0
    /\ TotalSamples = 0
    /\ ~Playing

\* C18: from the Paused state (a stream open, its controller paused, not
\* playing) the Stop key leads to Stopped: the key is not dropped while a
\* paused stream is open.
C18_StopFromPaused ==
  ~(/\ lastOp = "KeyStopIgnored"
    /\ CurrentStreamer # Nil
    /\ CurrentStreamer \in open
    /\ Ctrl = CurrentStreamer
    /\ ctrlPaused[Ctrl]
    /\ ~Playing)

\* C19: from the Paused state the play/pause key resumes playback on the
\* same stream at the same position: the key is not dropped while a paused
\* stream is open.
C19_ResumeFromPaused ==
  ~(/\ lastOp = "KeyPauseIgnored"
    /\ CurrentStreamer # Nil
    /\ CurrentStreamer \in open
    /\ Ctrl = CurrentStreamer
    /\ ctrlPaused[Ctrl]
    /\ ~Playing)

\* C27: while a track is playing (the same stream before and after the
\* step) samplesPlayed does not decrease except by the playbackSeekedMsg
\* of a skip, and the callback adds to it exactly the size of the block it
\* streamed, which is not negative.
C27_MonotonicPosition ==
  [][Playing /\ CurrentStreamer # Nil /\ CurrentStreamer' = CurrentStreamer =>
       /\ lastOp' # "playbackSeekedMsg" => SamplesPlayed' >= SamplesPlayed
       /\ lastOp' = "CallbackWrite" =>
            cb.n >= 0 /\ SamplesPlayed' = SamplesPlayed + cb.n]_vars

\* C32: a Stop issued by the user, once Update has processed its outcome,
\* leaves the engine stopped (not playing, no current stream, nothing with
\* the speaker), leaves the queue and its cursor as they were, and starts
\* no track: it issues no command and opens no stream.
C32_UserStopStaysStopped ==
  [][lastOp' \in {"stopMsg", "stopError"} =>
       /\ ~Playing' /\ CurrentStreamer' = Nil /\ mixer' = {}
       /\ UNCHANGED queueVars
       /\ cmds' = cmds /\ nextId' = nextId]_vars

(***************************************************************************)
(* SpecTick: the progress tick of update.go while a track is started,      *)
(* streamed, paused and stopped.  Init schedules the first tick; every     *)
(* handled tick schedules the next.                                        *)
(***************************************************************************)
\* The percent handleTick hands to the progress bar.
TickPercent(samples, total) == Min(100, (100 * samples) \div total)

\* The test at the head of handleTick.
TickIdle_TotalOnly(playing, total) == total <= 0
TickIdle(playing, total) == ~playing \/ total <= 0

\* Update, case tickMsg: handleTick.
UpdateTickMsg ==
  /\ tickPending
  /\ tickPending' = TRUE
  /\ Progress' = IF TickIdle(Playing, TotalSamples)
                   THEN Progress
                   ELSE TickPercent(SamplesPlayed, TotalSamples)
  /\ UNCHANGED <<cmds, msgs, Error, CurrentVolume, playerVars>>

HandleTickMsg ==
  /\ ~panicked
  /\ UpdateTickMsg
  /\ lastOp' = "tickMsg"
  /\ UNCHANGED idleRest

NextTick ==
  \/ Play
  \/ StreamBlock
  \/ CountBlock
  \/ StreamEnds
  \/ PressPause
  \/ ExecPauseCmd
  \/ HandlePauseMsg
  \/ PressStop
  \/ ExecStopCmd
  \/ HandleStopMsg
  \/ HandleError
  \/ HandleTickMsg

SpecTick == Init /\ [][NextTick]_vars

LegacyStopCmd(closeOk) ==
  /\ cbPc = "idle"
  /\ mixer' = {}
  /\ Playing' = FALSE
  /\ IF CurrentStreamer = Nil
       THEN /\ SamplesPlayed' = 0
            /\ PlayedTime' = 0
            /\ Progress' = 0
            /\ UNCHANGED <<CurrentStreamer, open, pos, slen>>
       ELSE /\ open' = open \ {CurrentStreamer}
            /\ pos' = Forget(pos, CurrentStreamer)
            /\ slen' = Forget(slen, CurrentStreamer)
            /\ IF closeOk /\ CurrentStreamer \in open
                 THEN /\ CurrentStreamer' = Nil
                      /\ SamplesPlayed' = 0
                      /\ PlayedTime' = 0
                      /\ Progress' = 0
                 ELSE UNCHANGED <<CurrentStreamer, SamplesPlayed, PlayedTime, Progress>>
  /\ UNCHANGED <<TotalSamples, engineChan, engineVol, cbVars, panicked>>
  /\ UNCHANGED <<nextId, ctrlPaused, doneClosed, playWait>>

EnginePlay ==
  /\ ~panicked
  /\ \E t \in Library, openOk \in BOOLEAN :
       /\ PlayStart(t, openOk)
       /\ lastOp' = IF openOk THEN "Play" ELSE "PlayFailed"
  /\ UNCHANGED idleLoop
EnginePause ==
  /\ ~panicked
  /\ AudioPlayerPause
  /\ lastOp' = "Pause"
  /\ UNCHANGED idleLoop
EngineStop ==
  /\ ~panicked
  /\ AudioPlayerStop
  /\ lastOp' = IF lastOp \in {"Stop", "StopAgain"} THEN "StopAgain" ELSE "Stop"
  /\ UNCHANGED idleLoop
EngineStopCmd ==
  /\ ~panicked
  /\ \E closeOk \in BOOLEAN : LegacyStopCmd(closeOk)
  /\ lastOp' = IF lastOp \in {"StopCmd", "StopCmdAgain"} THEN "StopCmdAgain" ELSE "StopCmd"
  /\ UNCHANGED <<cmds, msgs, Error, CurrentVolume, tickPending, queueVars, histVars, libVars>>

NextEngine ==
  \/ EnginePlay
  \/ PlayReturns
  \/ StreamBlock
  \/ CountBlock
  \/ StreamEnds
  \/ EnginePause
  \/ EngineStop
  \/ EngineStopCmd

SpecEngine == Init /\ [][NextEngine]_vars

\* C2: at most one decoder stream is open at any time: Play closes the
\* stream opened before, whether the engine was playing, paused, stopped
\* or at the end of its stream.
C2_OneOpenStream == Cardinality(open) <= 1

\* C10: Stop is idempotent: a Stop that directly follows a Stop changes
\* nothing; it closes no stream, signals no done channel and does not panic.
C10_StopIdempotent ==
  [][lastOp' \in {"StopAgain", "StopCmdAgain"} => UNCHANGED <<playerVars, Progress>>]_vars

\* A second Stop in a row, after a track was started and the first Stop
\* signalled its done channel.
C10_Witness == lastOp = "StopAgain" /\ doneChan # Nil /\ doneChan \in doneClosed

\* C11: a Play that fails to open or decode its file leaves the engine
\* stopped with no partial state, whatever state it was called in: not
\* playing, no current stream, samplesPlayed = 0 and totalSamples = 0.
C11_FailedPlayLeavesStopped ==
  lastOp = "PlayFailed" =>
    /\ ~Playing
    /\ CurrentStreamer = Nil
    /\ SamplesPlayed = 0
    /\ TotalSamples = 0

\* C20: IsPlaying() is true only if a stream is open, the engine is not
\* paused and the end of the stream has not been signalled; and the stream
\* reference is non-null exactly when a track has been opened and not yet
\* stopped or closed.
C20_IsPlayingAndStreamRef ==
  /\ IsPlaying =>
       /\ CurrentStreamer # Nil
       /\ CurrentStreamer \in open
       /\ ~ctrlPaused[Ctrl]
       /\ doneChan \notin doneClosed
  /\ CurrentStreamer # Nil <=> open # {}
  /\ CurrentStreamer # Nil => CurrentStreamer \in open

\* C17: Pause with a stream open leaves the engine not playing and leaves
\* the stream, samplesPlayed and totalSamples as they were; Pause with
\* nothing open changes no state; a Pause that directly follows a Pause
\* changes nothing.
C17_PauseFrame ==
  [][lastOp' = "Pause" =>
       /\ UNCHANGED <<CurrentStreamer, SamplesPlayed, TotalSamples, open, pos, slen>>
       /\ CurrentStreamer # Nil => ~Playing'
       /\ CurrentStreamer = Nil => UNCHANGED playerVars
       /\ lastOp = "Pause" => UNCHANGED playerVars]_vars

(***************************************************************************)
(* SpecSeek: seeking.  The skip keys with their commands and the           *)
(* playbackSeekedMsg they answer with, and AudioPlayer.SeekTo, while       *)
(* tracks are started and streamed.                                        *)
(***************************************************************************)
\* The sample positions SeekTo is asked for: before the start, inside a
\* track, and past the end of the longest track.
SeekTargets == {-1, 0, ShortLen, LongLen + 1}

\* AudioPlayer.SeekTo of audio_player.go:349-367, called with the duration
\* that samplePos stands for.  The position is handed to the decoder as it
\* is.
AudioPlayerSeekTo(samplePos, seekOk) ==
  /\ IF CurrentStreamer = Nil
       THEN UNCHANGED <<pos, SamplesPlayed, PlayedTime>>
       ELSE LET s == CurrentStreamer IN
            /\ cbPc = "idle"
            /\ IF SeekFailed(SeekAccepted(s, samplePos, seekOk))
                 THEN UNCHANGED <<pos, SamplesPlayed, PlayedTime>>
                 ELSE /\ pos' = [pos EXCEPT ![s] = samplePos]
                      /\ SamplesPlayed' = samplePos
                      /\ PlayedTime' = DurationOf(samplePos)
  /\ UNCHANGED <<CurrentStreamer, Playing, TotalSamples, engineChan, engineVol>>
  /\ UNCHANGED <<nextId, open, slen, ctrlPaused, mixer, doneClosed, playWait>>
  /\ UNCHANGED <<cbVars, panicked>>

DoSeekTo ==
  /\ ~panicked
  /\ \E samplePos \in SeekTargets, seekOk \in BOOLEAN :
       /\ AudioPlayerSeekTo(samplePos, seekOk)
       /\ lastOp' = IF CurrentStreamer = Nil THEN "SeekToNoPlayback"
                    ELSE IF SeekAccepted(CurrentStreamer, samplePos, seekOk)
                      THEN "SeekTo" ELSE "SeekToSeekError"
  /\ UNCHANGED idleLoop

NextSeek ==
  \/ EnginePlay
  \/ PlayReturns
  \/ StreamBlock
  \/ CountBlock
  \/ StreamEnds
  \/ PressSkipForward
  \/ PressSkipBackward
  \/ ExecSkipCmd
  \/ HandleError
  \/ HandlePlaybackSeekedMsg
  \/ DoSeekTo

SpecSeek == Init /\ [][NextSeek]_vars

\* C12: seek clamping.  The position a skip computes is
\* min(current + seconds*sampleRate, length) going forward and
\* max(current - seconds*sampleRate, 0) going backward, and the
\* samplesPlayed a seek stores (by the skip's playbackSeekedMsg or by
\* SeekTo) is never outside [0, totalSamples].
C12_SeekClamping ==
  /\ \A len \in {ShortLen, LongLen} : \A p \in 0..len :
       /\ SkipForwardPos(p, len) = Min(p + SkipSeconds * SampleRate, len)
       /\ SkipBackwardPos(p) = -Min(SkipSeconds * SampleRate - p, 0)
  /\ lastOp \in {"playbackSeekedMsg", "SeekTo"} =>
       0 <= SamplesPlayed /\ SamplesPlayed <= TotalSamples

(***************************************************************************)
(* SpecSeekCalls: the skip commands and the SeekTo of both versions of the *)
(* AudioPlayer, called before a track is started, while it plays, after a  *)
(* Stop and after a StopCmd whose Close failed.                            *)
(***************************************************************************)
\* AudioPlayer.SeekTo of audio_player.go:123-138.  The nil check is
\* inverted: with a stream it returns "no track is playing", without one
\* it calls Seek on the nil CurrentStreamer.
LegacySeekTo ==
  /\ panicked' = (CurrentStreamer = Nil)
  /\ UNCHANGED <<engineVars, streamVars, cbVars>>

DoLegacySeekTo ==
  /\ ~panicked
  /\ LegacySeekTo
  /\ lastOp' = IF CurrentStreamer = Nil THEN "LegacySeekToPanic"
                                        ELSE "LegacySeekToNoPlayback"
  /\ UNCHANGED idleLoop

NextSeekCalls ==
  \/ Play
  \/ EngineStop
  \/ StreamBlock
  \/ CountBlock
  \/ StreamEnds
  \/ PressStop
  \/ ExecStopCmd
  \/ HandleStopMsg
  \/ PressSkipForward
  \/ PressSkipBackward
  \/ ExecSkipCmd
  \/ HandleError
  \/ HandlePlaybackSeekedMsg
  \/ DoSeekTo
  \/ DoLegacySeekTo

SpecSeekCalls == Init /\ [][NextSeekCalls]_vars

\* The names lastOp takes after a skip command or a SeekTo, and those among
\* them that stand for the "no active playback" error.
SeekResults ==
  {"SkipCmd", "SkipCmdNoPlayback", "SkipCmdSeekError",
   "SeekTo", "SeekToNoPlayback", "SeekToSeekError",
   "LegacySeekToNoPlayback", "LegacySeekToPanic"}
NoPlaybackResults ==
  {"SkipCmdNoPlayback", "SeekToNoPlayback", "LegacySeekToNoPlayback"}

\* C21: a skip command or a SeekTo run while the player has no stream
\* fails with the "no active playback" error and changes no playback
\* state; run while the player's stream is open it does not fail with that
\* error.
C21_NoActivePlayback ==
  [][lastOp' \in SeekResults =>
       /\ CurrentStreamer = Nil =>
            lastOp' \in NoPlaybackResults /\ UNCHANGED playerVars
       /\ CurrentStreamer # Nil /\ CurrentStreamer \in open =>
            lastOp' \notin NoPlaybackResults]_vars

\* C22: when the Seek of the stream fails, the skip command returns the
\* error as its message and SeekTo returns it to its caller; samplesPlayed,
\* the played time and the position of the decoder are what they were
\* before the operation.
C22_SeekFailureKeepsPosition ==
  [][lastOp' \in {"SkipCmdSeekError", "SeekToSeekError"} =>
       /\ UNCHANGED <<SamplesPlayed, PlayedTime, pos>>
       /\ lastOp' = "SkipCmdSeekError" => msgs' = Append(msgs, Msg("error", 0))
       /\ lastOp' = "SeekToSeekError" => UNCHANGED msgs]_vars

\* A skip whose Seek failed on an open stream that had played some samples.
C22_Witness ==
  /\ lastOp = "SkipCmdSeekError"
  /\ CurrentStreamer \in open
  /\ SamplesPlayed > 0
  /\ PlayedTime > 0
  /\ Len(msgs) = 1 /\ msgs[1].type = "error"

(***************************************************************************)
(* SpecQueue: the Queue component (unnamed/part_002:163-258), with the     *)
(* Current of its earlier version (unnamed/part_003:45-47).  CurrentIndex  *)
(* counts from 0 as in the source; Tracks is a sequence, so the entry at   *)
(* index i is Tracks[i + 1].                                               *)
(***************************************************************************)
\* The cursor after Queue.Next.
NextIndex_NoWrap(index, n) == index + 1
NextIndex(index, n) == IF index + 1 >= n THEN 0 ELSE index + 1

\* The cursor after Queue.Previous.
PreviousIndex(index, n) == IF index - 1 < 0 THEN n - 1 ELSE index - 1

\* Queue.Current
Current(tracks, index) ==
  IF Len(tracks) = 0 \/ index < 0 \/ index >= Len(tracks)
    THEN Nil
    ELSE tracks[index + 1]

\* Queue.Add
QueueAdd(track) ==
  /\ Tracks' = Append(Tracks, track)
  /\ prevIndex' = CurrentIndex
  /\ returned' = Nil
  /\ UNCHANGED <<CurrentIndex, panicked>>

\* Queue.Remove: the slice expressions panic when index is out of range.
QueueRemove(index) ==
  /\ IF index < 0 \/ index >= Len(Tracks)
       THEN /\ panicked' = TRUE
            /\ UNCHANGED Tracks
       ELSE /\ Tracks' = RemoveAt(Tracks, index + 1)
            /\ UNCHANGED panicked
  /\ prevIndex' = CurrentIndex
  /\ returned' = Nil
  /\ UNCHANGED CurrentIndex

\* Queue.Next
QueueNext ==
  /\ CurrentIndex' = NextIndex(CurrentIndex, Len(Tracks))
  /\ prevIndex' = CurrentIndex
  /\ returned' = Nil
  /\ UNCHANGED <<Tracks, panicked>>

\* Queue.Previous
QueuePrevious ==
  /\ CurrentIndex' = PreviousIndex(CurrentIndex, Len(Tracks))
  /\ prevIndex' = CurrentIndex
  /\ returned' = Nil
  /\ UNCHANGED <<Tracks, panicked>>

\* Queue.Clear
QueueClear ==
  /\ Tracks' = <<>>
  /\ prevIndex' = CurrentIndex
  /\ returned' = Nil
  /\ UNCHANGED <<CurrentIndex, panicked>>

\* Queue.AdvanceAndGetNext
AdvanceAndGetNext ==
  /\ IF Len(Tracks) # 0 /\ CurrentIndex + 1 < Len(Tracks)
       THEN /\ CurrentIndex' = CurrentIndex + 1
            /\ returned' = Tracks[CurrentIndex + 2]
       ELSE /\ returned' = Nil
            /\ UNCHANGED CurrentIndex
  /\ prevIndex' = CurrentIndex
  /\ UNCHANGED <<Tracks, panicked>>

\* Queue.Current called by the program
QueueCurrent ==
  /\ returned' = Current(Tracks, CurrentIndex)
  /\ prevIndex' = CurrentIndex
  /\ UNCHANGED <<Tracks, CurrentIndex, panicked>>

\* Queue.Current of unnamed/part_003:45-47: "return q.Tracks[q.CurrentIndex]"
\* with no check; the index expression panics when the cursor is not on an
\* entry.
LegacyQueueCurrent ==
  /\ IF CurrentIndex < 0 \/ CurrentIndex >= Len(Tracks)
       THEN /\ panicked' = TRUE
            /\ returned' = Nil
       ELSE /\ returned' = Tracks[CurrentIndex + 1]
            /\ UNCHANGED panicked
  /\ prevIndex' = CurrentIndex
  /\ UNCHANGED <<Tracks, CurrentIndex>>

idleQueue == <<engineVars, streamVars, cbVars, loopVars, volHist, advances, libVars>>

DoAdd ==
  /\ ~panicked
  /\ Len(Tracks) < MaxQueueLen
  /\ \E track \in Library : QueueAdd(track)
  /\ lastOp' = "Add"
  /\ UNCHANGED idleQueue
DoRemove ==
  /\ ~panicked
  /\ \E index \in -1..MaxQueueLen : QueueRemove(index)
  /\ lastOp' = "Remove"
  /\ UNCHANGED idleQueue
\* Update, case removeTrackFromQueueMsg.  The index is the cursor of the
\* queue table at the time the key was pressed.
HandleRemoveTrackFromQueueMsg ==
  /\ ~panicked
  /\ \E index \in 0..MaxQueueLen - 1 : QueueRemove(index)
  /\ lastOp' = "removeTrackFromQueueMsg"
  /\ UNCHANGED idleQueue
DoNext ==
  /\ ~panicked
  /\ QueueNext
  /\ lastOp' = "Next"
  /\ UNCHANGED idleQueue
DoPrevious ==
  /\ ~panicked
  /\ QueuePrevious
  /\ lastOp' = "Previous"
  /\ UNCHANGED idleQueue
DoClear ==
  /\ ~panicked
  /\ QueueClear
  /\ lastOp' = "Clear"
  /\ UNCHANGED idleQueue
\* Update, case clearQueueMsg
HandleClearQueueMsg ==
  /\ ~panicked
  /\ QueueClear
  /\ lastOp' = "clearQueueMsg"
  /\ UNCHANGED idleQueue
DoAdvanceAndGetNext ==
  /\ ~panicked
  /\ AdvanceAndGetNext
  /\ lastOp' = "AdvanceAndGetNext"
  /\ UNCHANGED idleQueue
DoCurrent ==
  /\ ~panicked
  /\ QueueCurrent
  /\ lastOp' = "Current"
  /\ UNCHANGED idleQueue
DoLegacyCurrent ==
  /\ ~panicked
  /\ LegacyQueueCurrent
  /\ lastOp' = "LegacyCurrent"
  /\ UNCHANGED idleQueue

NextQueue ==
  \/ DoAdd
  \/ DoRemove
  \/ HandleRemoveTrackFromQueueMsg
  \/ DoNext
  \/ DoPrevious
  \/ DoClear
  \/ HandleClearQueueMsg
  \/ DoAdvanceAndGetNext
  \/ DoCurrent
  \/ DoLegacyCurrent

SpecQueue == Init /\ [][NextQueue]_vars

\* C5: circular versus linear advance.  With n >= 1 tracks and the cursor
\* on the last entry, Next moves the cursor to 0 while AdvanceAndGetNext
\* returns no track and leaves the cursor on n-1; with the cursor before
\* the last entry both move it forward by exactly one and AdvanceAndGetNext
\* returns the track at the new cursor.
C5_CircularVersusLinear ==
  LET n == Len(Tracks) IN
  n >= 1 =>
    /\ lastOp = "Next" /\ prevIndex = n - 1 => CurrentIndex = 0
    /\ lastOp = "AdvanceAndGetNext" /\ prevIndex = n - 1 =>
         returned = Nil /\ CurrentIndex = n - 1
    /\ lastOp \in {"Next", "AdvanceAndGetNext"} /\ prevIndex < n - 1 =>
         CurrentIndex = prevIndex + 1
    /\ lastOp = "AdvanceAndGetNext" /\ prevIndex < n - 1 =>
         returned = Tracks[prevIndex + 2]

\* Next has just been called with the cursor on the last of several
\* entries.
C5_Witness ==
  /\ lastOp = "Next"
  /\ Len(Tracks) >= 2
  /\ prevIndex = Len(Tracks) - 1
  /\ CurrentIndex = 0

\* C13: a Remove with index < 0 or index >= len(tracks), called directly
\* or through the remove-from-queue message, does not crash and leaves
\* tracks and currentIndex unchanged.
C13_RemoveOutOfRange ==
  [][\A index \in -1..MaxQueueLen :
       /\ index < 0 \/ index >= Len(Tracks)
       /\ lastOp' \in {"Remove", "removeTrackFromQueueMsg"}
       /\ QueueRemove(index)
       => ~panicked' /\ UNCHANGED queueVars]_vars

\* C23: Clear, called directly or through the clear-queue message, leaves
\* the queue with no tracks and the cursor on 0, whatever the queue was.
C23_ClearResets ==
  lastOp \in {"Clear", "clearQueueMsg"} => Tracks = <<>> /\ CurrentIndex = 0

\* C35: whenever the queue holds tracks the cursor is an index of one of
\* them, 0 <= CurrentIndex < len(Tracks), so that Current returns a track.
C35_CursorInRange ==
  Len(Tracks) > 0 =>
    /\ 0 <= CurrentIndex /\ CurrentIndex < Len(Tracks)
    /\ Current(Tracks, CurrentIndex) # Nil

\* C24: on an empty queue Current, Next, Previous and AdvanceAndGetNext do
\* not crash, and Current and AdvanceAndGetNext return no track, however
\* the queue came to be empty.
C24_EmptyQueueSafe ==
  [][/\ Len(Tracks) = 0
     /\ lastOp' \in {"Current", "LegacyCurrent", "Next", "Previous", "AdvanceAndGetNext"}
     => /\ ~panicked'
        /\ lastOp' \in {"Current", "LegacyCurrent", "AdvanceAndGetNext"} => returned' = Nil]_vars

\* Library.AddFile on the list of paths the library holds.
LibraryAddFile(files, path) ==
  IF \E k \in 1..Len(files) : files[k] = path THEN files ELSE Append(files, path)

\* The lists of at most n paths.
PathLists(n) == UNION {[1..k -> Library] : k \in 0..n}

\* No path occurs twice in the list.
NoDuplicates(list) == \A i, j \in 1..Len(list) : list[i] = list[j] => i = j

\* C25: identity is the path.  AddFile never makes a library without
\* duplicates hold a path twice, and after any sequence of additions the
\* queue holds no path twice.
C25_PathIdentity ==
  /\ \A files \in PathLists(MaxQueueLen) : \A path \in Library :
       NoDuplicates(files) => NoDuplicates(LibraryAddFile(files, path))
  /\ NoDuplicates(Tracks)

(***************************************************************************)
(* SpecVolume: the volume keys of update.go, SetVolumeCmd and              *)
(* AudioPlayer.SetVolume.                                                  *)
(***************************************************************************)
\* The clamp at the head of AudioPlayer.SetVolume.
ClampPercent_NoUpper(percent) == IF percent < minVolume THEN minVolume ELSE percent
ClampPercent(percent) ==
  IF percent < minVolume THEN minVolume
  ELSE IF percent > maxVolume THEN maxVolume ELSE percent

\* The gain AudioPlayer.SetVolume computes for a level above 0: the fixed
\* maximum at 100, else the decibel value of the level, which the level
\* itself stands for.
GainOf_NoMax(percent) == percent
GainOf(percent) == IF percent = 100 THEN MaxGain ELSE percent

\* AudioPlayer.SetVolume.  The gain is written under the speaker lock.
AudioPlayerSetVolume(percent) ==
  LET clamped == ClampPercent(percent) IN
  /\ CurrentVolumePercent' = clamped
  /\ IF Volume = Nil
       THEN UNCHANGED <<Silent, Gain>>
       ELSE /\ cbPc = "idle"
            /\ IF clamped <= 0
                 THEN Silent' = TRUE /\ UNCHANGED Gain
                 ELSE Silent' = FALSE /\ Gain' = GainOf(clamped)
  /\ UNCHANGED <<enginePlay, engineChan, Volume, streamVars, cbVars, panicked>>

\* The level the VolumeUp key asks for.
VolumeUpTarget(currentVol) ==
  IF currentVol + VolumeStep > 100 THEN 100 ELSE currentVol + VolumeStep

\* The level the VolumeDown key asks for.
VolumeDownTarget(currentVol) ==
  IF currentVol - VolumeStep < 0 THEN 0 ELSE currentVol - VolumeStep

\* The level the VolumeMute key asks for.
VolumeMuteTarget == IF CurrentVolume > 0 THEN 0 ELSE CurrentVolume

\* handleKeyPress, case VolumeUp
KeyVolumeUp ==
  /\ Volume # Nil
  /\ cmds' = Append(cmds, Cmd("SetVolumeCmd", VolumeUpTarget(CurrentVolumePercent)))
  /\ issuedVolume' = VolumeUpTarget(issuedVolume)
  /\ lastIssued' = VolumeUpTarget(CurrentVolumePercent)
  /\ UNCHANGED <<msgs, modelVars, playerVars>>

\* handleKeyPress, case VolumeDown
KeyVolumeDown ==
  /\ Volume # Nil
  /\ cmds' = Append(cmds, Cmd("SetVolumeCmd", VolumeDownTarget(CurrentVolumePercent)))
  /\ issuedVolume' = VolumeDownTarget(issuedVolume)
  /\ lastIssued' = VolumeDownTarget(CurrentVolumePercent)
  /\ UNCHANGED <<msgs, modelVars, playerVars>>

\* handleKeyPress, case VolumeMute
KeyVolumeMute ==
  /\ Volume # Nil
  /\ cmds' = Append(cmds, Cmd("SetVolumeCmd", VolumeMuteTarget))
  /\ issuedVolume' = ClampPercent(VolumeMuteTarget)
  /\ lastIssued' = ClampPercent(VolumeMuteTarget)
  /\ UNCHANGED <<msgs, modelVars, playerVars>>

\* SetVolumeCmd
RunSetVolumeCmd(i) ==
  /\ cmds[i].type = "SetVolumeCmd"
  /\ cmds' = RemoveAt(cmds, i)
  /\ IF Volume = Nil
       THEN /\ msgs' = Append(msgs, Msg("error", 0))
            /\ UNCHANGED playerVars
       ELSE /\ AudioPlayerSetVolume(cmds[i].arg)
            /\ msgs' = Append(msgs, Msg("volumeChangedMsg", cmds[i].arg))
  /\ UNCHANGED modelVars

\* Update, case volumeChangedMsg
UpdateVolumeChangedMsg(i) ==
  /\ msgs[i].type = "volumeChangedMsg"
  /\ msgs' = RemoveAt(msgs, i)
  /\ CurrentVolume' = msgs[i].arg
  /\ UNCHANGED <<cmds, Error, Progress, tickPending, playerVars>>

idleVolume == <<queueVars, queueHist, advances, libVars>>

PressVolumeUp ==
  /\ InFlight < MaxVolPending
  /\ volKeys < MaxVolKeys
  /\ KeyVolumeUp
  /\ volKeys' = volKeys + 1
  /\ lastOp' = "KeyVolumeUp"
  /\ UNCHANGED idleVolume
PressVolumeDown ==
  /\ InFlight < MaxVolPending
  /\ volKeys < MaxVolKeys
  /\ KeyVolumeDown
  /\ volKeys' = volKeys + 1
  /\ lastOp' = "KeyVolumeDown"
  /\ UNCHANGED idleVolume
PressVolumeMute ==
  /\ InFlight < MaxVolPending
  /\ volKeys < MaxVolKeys
  /\ KeyVolumeMute
  /\ volKeys' = volKeys + 1
  /\ lastOp' = "KeyVolumeMute"
  /\ UNCHANGED idleVolume
ExecSetVolumeCmd ==
  /\ \E i \in 1..Len(cmds) : RunSetVolumeCmd(i)
  /\ lastOp' = "SetVolumeCmd"
  /\ UNCHANGED idleRest
HandleVolumeChangedMsg ==
  /\ \E i \in 1..Len(msgs) : UpdateVolumeChangedMsg(i)
  /\ lastOp' = "volumeChangedMsg"
  /\ UNCHANGED idleRest

NextVolume ==
  \/ Play
  \/ PressVolumeUp
  \/ PressVolumeDown
  \/ PressVolumeMute
  \/ ExecSetVolumeCmd
  \/ HandleVolumeChangedMsg

SpecVolume == Init /\ [][NextVolume]_vars

\* C8: the commands the loop issues take effect in the order of issue: once
\* every issued SetVolume has run, the volume is the one the last key asked
\* for, and it is the level reached by applying the pressed keys one after
\* the other (two volume-up presses raise it by two steps).
C8_CommandsInIssueOrder ==
  cmds = <<>> =>
    /\ CurrentVolumePercent = lastIssued
    /\ CurrentVolumePercent = issuedVolume

(***************************************************************************)
(* SpecSetVolume: AudioPlayer.SetVolume reached in every way the program   *)
(* has: called directly with any level, through the volume keys and        *)
(* SetVolumeCmd, and through VolumeUpCmd and VolumeDownCmd of              *)
(* commands.go:685-708.                                                    *)
(***************************************************************************)
\* The levels SetVolume is called with directly.
SetVolumeInputs ==
  {minVolume - VolumeStep, minVolume, DefaultVolumePercent,
   maxVolume, maxVolume + VolumeStep}

\* The levels VolumeUpCmd and VolumeDownCmd pass: Volume.Volume + 0.1 and
\* Volume.Volume - 0.1.  The gain is 0 or below for a level under 100 and
\* 1.2 at 100, so what they pass as a level is below 2.
LegacyVolumeArgs == {-1, 0, 1}

\* VolumeUpCmd(m), VolumeDownCmd(m)
RunLegacyVolumeCmd(percent) ==
  /\ IF Volume = Nil
       THEN UNCHANGED playerVars
       ELSE AudioPlayerSetVolume(percent)
  /\ UNCHANGED loopVars

DoSetVolume ==
  /\ ~panicked
  /\ volKeys < MaxVolKeys
  /\ volKeys' = volKeys + 1
  /\ \E percent \in SetVolumeInputs :
       /\ AudioPlayerSetVolume(percent)
       /\ lastIssued' = percent
       /\ issuedVolume' = ClampPercent(percent)
  /\ lastOp' = "SetVolume"
  /\ UNCHANGED <<loopVars, queueVars, queueHist, advances, libVars>>
ExecVolumeUpCmd ==
  /\ ~panicked
  /\ volKeys < MaxVolKeys
  /\ volKeys' = volKeys + 1
  /\ \E percent \in LegacyVolumeArgs :
       /\ RunLegacyVolumeCmd(percent)
       /\ lastIssued' = percent
       /\ issuedVolume' = ClampPercent(percent)
  /\ lastOp' = IF Volume = Nil THEN "VolumeUpCmdError" ELSE "VolumeUpCmd"
  /\ UNCHANGED <<queueVars, queueHist, advances, libVars>>
ExecVolumeDownCmd ==
  /\ ~panicked
  /\ volKeys < MaxVolKeys
  /\ volKeys' = volKeys + 1
  /\ \E percent \in LegacyVolumeArgs :
       /\ RunLegacyVolumeCmd(percent)
       /\ lastIssued' = percent
       /\ issuedVolume' = ClampPercent(percent)
  /\ lastOp' = IF Volume = Nil THEN "VolumeDownCmdError" ELSE "VolumeDownCmd"
  /\ UNCHANGED <<queueVars, queueHist, advances, libVars>>

NextSetVolume ==
  \/ Play
  \/ DoSetVolume
  \/ ExecVolumeUpCmd
  \/ ExecVolumeDownCmd
  \/ PressVolumeUp
  \/ PressVolumeDown
  \/ PressVolumeMute
  \/ ExecSetVolumeCmd
  \/ HandleVolumeChangedMsg

SpecSetVolume == Init /\ [][NextSetVolume]_vars

\* C15: after any sequence of SetVolume calls with any level, below 0 and
\* above 100 included, and of volume key steps, the stored volumePercent
\* is in [0, 100]; SetVolume(p) stores max(0, min(100, p)).
C15_VolumeInRange ==
  /\ 0 <= CurrentVolumePercent /\ CurrentVolumePercent <= 100
  /\ lastOp \in {"SetVolume", "VolumeUpCmd", "VolumeDownCmd"} =>
       CurrentVolumePercent = -Min(0, -Min(100, lastIssued))

\* SetVolume has just been called with a level above 100.
C15_Witness ==
  lastOp = "SetVolume" /\ lastIssued > 100 /\ CurrentVolumePercent = 100

\* C16: once a track has been started, so that the gain transform exists,
\* SetVolume(0) leaves the transform silent whatever the gain was before,
\* a SetVolume(p) with p > 0 leaves it not silent, and SetVolume(100)
\* selects the fixed maximum gain.
C16_SilentAtZero ==
  lastOp = "SetVolume" /\ Volume # Nil =>
    /\ lastIssued <= 0 => Silent
    /\ lastIssued > 0 => ~Silent
    /\ lastIssued >= 100 => Gain = MaxGain

\* SetVolume(0) has just silenced a transform that was at the maximum gain.
C16_Witness ==
  /\ lastOp = "SetVolume"
  /\ CurrentStreamer # Nil
  /\ lastIssued = 0
  /\ Silent
  /\ Gain = MaxGain

\* C14: mute round trip.  The SetVolume a mute key issues, run with no
\* other command in flight, toggles the silence of the output and leaves
\* the stored volumePercent as it was, so that a second mute key restores
\* audible output at the level before the first.
C14_MuteRoundTrip ==
  [][lastOp = "KeyVolumeMute" /\ Len(cmds) = 1 /\ lastOp' = "SetVolumeCmd"
       => CurrentVolumePercent' = CurrentVolumePercent /\ Silent' # Silent]_vars

(***************************************************************************)
(* SpecLegacy: the Update loop of unnamed/part_008 with the commands of    *)
(* commands.go:384-809, which run in their own goroutines and work on the  *)
(* model and on the AudioPlayer of audio_player.go:1-160 directly.         *)
(***************************************************************************)
\* AudioPlayer.GetProgress() >= 0.99
ProgressAtLeast99 == TotalSamples > 0 /\ 100 * SamplesPlayed >= 99 * TotalSamples

\* The check "current track finished playing" at the head of Update.
TrackFinished == Playing /\ ProgressAtLeast99

\* Model.Update of part_008 on one message.  kind is the message: "tick",
\* a key, "error" for an error value a command returned, or "other" for any
\* other message Update has no case for.
LegacyUpdate(kind, track) ==
  /\ kind = "tick" => tickPending
  /\ kind = "error" => msgs # <<>> /\ IsErrorMsg(msgs[1])
  /\ msgs' = IF kind = "error" THEN Tail(msgs) ELSE msgs
  /\ tickPending' = IF kind = "tick" THEN FALSE ELSE tickPending
  /\ Error' = IF kind = "tick" THEN Error ELSE FALSE
  /\ IF TrackFinished
       THEN /\ cmds' = Append(cmds, Cmd("PlayNextInQueueCmd", 1))
            /\ UNCHANGED Tracks
       ELSE CASE kind = "KeyPlay" ->
                   /\ cmds' = Append(cmds, Cmd("playTrack", track))
                   /\ UNCHANGED Tracks
              [] kind = "KeyPlayNext" ->
                   /\ cmds' = Append(cmds, Cmd("PlayNextInQueueCmd", 0))
                   /\ UNCHANGED Tracks
              [] kind = "KeyAddToQueue" ->
                   /\ cmds' = Append(cmds, Cmd("AddToQueueCmd", track))
                   /\ UNCHANGED Tracks
              [] kind = "KeyClearQueue" ->
                   /\ Tracks' = <<>>
                   /\ UNCHANGED cmds
              [] OTHER -> UNCHANGED <<cmds, Tracks>>
  /\ UNCHANGED <<Progress, CurrentVolume, CurrentIndex, playerVars>>

\* AudioPlayer.Stop of audio_player.go:106-115: no speaker.Clear(), no lock.
LegacyStopOpen == IF CurrentStreamer # Nil THEN open \ {CurrentStreamer} ELSE open
LegacyStopPos == IF CurrentStreamer # Nil THEN Forget(pos, CurrentStreamer) ELSE pos
LegacyStopLen == IF CurrentStreamer # Nil THEN Forget(slen, CurrentStreamer) ELSE slen

\* playTrack.  openOk is the outcome of util.OpenAudioFile; speaker.Play
\* takes the speaker lock.  The error of a failed open is the command's
\* message.
RunPlayTrack(i, openOk) ==
  LET s == nextId + 1 IN
  /\ cmds[i].type = "playTrack"
  /\ cmds' = RemoveAt(cmds, i)
  /\ IF openOk
       THEN /\ nextId < MaxLoopPlays
            /\ cbPc = "idle"
            /\ CurrentStreamer' = s
            /\ TotalSamples' = TrackLen(cmds[i].arg)
            /\ SamplesPlayed' = 0
            /\ PlayedTime' = 0
            /\ Volume' = s
            /\ Silent' = FALSE
            /\ Ctrl' = s
            /\ ctrlPaused' = [ctrlPaused EXCEPT ![s] = FALSE]
            /\ Playing' = TRUE
            /\ nextId' = s
            /\ open' = LegacyStopOpen \cup {s}
            /\ slen' = [LegacyStopLen EXCEPT ![s] = TrackLen(cmds[i].arg)]
            /\ pos' = [LegacyStopPos EXCEPT ![s] = 0]
            /\ mixer' = mixer \cup {s}
            /\ advances' = 0
            /\ UNCHANGED msgs
       ELSE /\ msgs' = Append(msgs, Msg("error", 0))
            /\ CurrentStreamer' = Nil
            /\ Playing' = FALSE
            /\ SamplesPlayed' = 0
            /\ PlayedTime' = 0
            /\ TotalSamples' = 0
            /\ open' = LegacyStopOpen
            /\ slen' = LegacyStopLen
            /\ pos' = LegacyStopPos
            /\ UNCHANGED <<Volume, Silent, Ctrl, ctrlPaused, nextId, mixer, advances>>
  /\ UNCHANGED <<Gain, CurrentVolumePercent, doneChan, closeOnceDone, doneClosed, playWait>>
  /\ UNCHANGED <<cbVars, panicked, modelVars, queueVars, queueHist, libVars>>

\* PlayNextInQueueCmd(m): Queue.Next() and nothing else.  The argument
\* tells whether the end-of-track check issued the command.
RunPlayNextInQueueCmd(i) ==
  /\ cmds[i].type = "PlayNextInQueueCmd"
  /\ cmds' = RemoveAt(cmds, i)
  /\ QueueNext
  /\ advances' = Min(advances + cmds[i].arg, MaxAdvances)
  /\ UNCHANGED <<msgs, modelVars, engineVars, streamVars, cbVars, libVars>>

\* AddToQueueCmd(m)
RunAddToQueueCmd(i) ==
  /\ cmds[i].type = "AddToQueueCmd"
  /\ cmds' = RemoveAt(cmds, i)
  /\ QueueAdd(cmds[i].arg)
  /\ UNCHANGED <<msgs, modelVars, engineVars, streamVars, cbVars, advances, libVars>>

\* The progress wrapper of playTrack: the write of SamplesPlayed; after a
\* short block the end-of-stream callback has run first.
LegacyCallbackWrite ==
  /\ cbPc = "mid"
  /\ SamplesPlayed' = cb.base + cb.n
  /\ PlayedTime' = DurationOf(cb.base + cb.n)
  /\ cbPc' = "idle"
  /\ cb' = NoBlock
  /\ IF cb.eof
       THEN Playing' = FALSE /\ mixer' = mixer \ {cb.stream}
       ELSE UNCHANGED <<Playing, mixer>>
  /\ UNCHANGED <<CurrentStreamer, TotalSamples, engineChan, engineVol>>
  /\ UNCHANGED <<nextId, open, slen, pos, ctrlPaused, doneClosed, playWait, panicked>>

\* The end-of-stream callback of playTrack, for a stream found drained or
\* closed at the start of a callback.
LegacyEndOfStream(s) ==
  /\ cbPc = "idle"
  /\ s \in mixer
  /\ ~ctrlPaused[s]
  /\ pos[s] = slen[s]
  /\ Playing' = FALSE
  /\ mixer' = mixer \ {s}
  /\ UNCHANGED <<CurrentStreamer, SamplesPlayed, PlayedTime, TotalSamples, engineChan, engineVol>>
  /\ UNCHANGED <<nextId, open, slen, pos, ctrlPaused, doneClosed, playWait, cbVars, panicked>>

AddsInFlight == Cardinality({k \in 1..Len(cmds) : cmds[k].type = "AddToQueueCmd"})
idleLegacy == <<queueHist, volHist, advances, libVars>>
idlePlayback == <<loopVars, queueVars, histVars, libVars>>

LegacyTick ==
  /\ TrackFinished => InFlight < MaxPending
  /\ \E track \in Library : LegacyUpdate("tick", track)
  /\ lastOp' = "tick"
  /\ UNCHANGED idleLegacy
LegacyOther ==
  /\ TrackFinished => InFlight < MaxPending
  /\ \E track \in Library : LegacyUpdate("other", track)
  /\ lastOp' = "other"
  /\ UNCHANGED idleLegacy
LegacyError ==
  /\ LegacyUpdate("error", Nil)
  /\ lastOp' = "error"
  /\ UNCHANGED idleLegacy
LegacyKeyPlay ==
  /\ InFlight < MaxPending
  /\ \E track \in Library : LegacyUpdate("KeyPlay", track)
  /\ lastOp' = "KeyPlay"
  /\ UNCHANGED idleLegacy
LegacyKeyPlayNext ==
  /\ InFlight < MaxPending
  /\ LegacyUpdate("KeyPlayNext", Nil)
  /\ lastOp' = "KeyPlayNext"
  /\ UNCHANGED idleLegacy
LegacyKeyAddToQueue ==
  /\ InFlight < MaxPending
  /\ Len(Tracks) + AddsInFlight < MaxLegacyQueue
  /\ \E track \in Library : LegacyUpdate("KeyAddToQueue", track)
  /\ lastOp' = "KeyAddToQueue"
  /\ UNCHANGED idleLegacy
LegacyKeyClearQueue ==
  /\ TrackFinished => InFlight < MaxPending
  /\ LegacyUpdate("KeyClearQueue", Nil)
  /\ lastOp' = "KeyClearQueue"
  /\ UNCHANGED idleLegacy
ExecPlayTrack ==
  /\ \E i \in 1..Len(cmds), openOk \in BOOLEAN : RunPlayTrack(i, openOk)
  /\ lastOp' = "playTrack"
  /\ UNCHANGED volHist
ExecPlayNextInQueueCmd ==
  /\ \E i \in 1..Len(cmds) :
       /\ RunPlayNextInQueueCmd(i)
       /\ lastOp' = IF cmds[i].arg = 1 THEN "AutoAdvance" ELSE "PlayNextInQueueCmd"
  /\ UNCHANGED volHist
ExecAddToQueueCmd ==
  /\ \E i \in 1..Len(cmds) : RunAddToQueueCmd(i)
  /\ lastOp' = "AddToQueueCmd"
  /\ UNCHANGED volHist
LegacyCountBlock ==
  /\ LegacyCallbackWrite
  /\ lastOp' = "CallbackWrite"
  /\ UNCHANGED idlePlayback
LegacyStreamEnds ==
  /\ \E s \in StreamIds : LegacyEndOfStream(s)
  /\ lastOp' = "EndOfStream"
  /\ UNCHANGED idlePlayback

NextLegacy ==
  \/ LegacyTick
  \/ LegacyOther
  \/ LegacyError
  \/ LegacyKeyPlay
  \/ LegacyKeyPlayNext
  \/ LegacyKeyAddToQueue
  \/ LegacyKeyClearQueue
  \/ ExecPlayTrack
  \/ ExecPlayNextInQueueCmd
  \/ ExecAddToQueueCmd
  \/ StreamBlock
  \/ LegacyCountBlock
  \/ LegacyStreamEnds

SpecLegacy == Init /\ [][NextLegacy]_vars

\* C36: the tick driver never dies: a tick is scheduled at all times after
\* Init, because Update answers every tick it handles with the next one.
C36_TickAlwaysPending == tickPending

\* C3: one finished track triggers at most one automatic advance of the
\* queue cursor, however many messages are processed while the progress is
\* at or above the threshold (stated for a queue in which every advance
\* moves the cursor).
C3_OneAdvancePerTrack == Len(Tracks) >= 2 => advances <= 1

\* A play of the given track has been issued.
PlayIssued(track) == \E k \in 1..Len(cmds) : cmds[k] = Cmd("playTrack", track)

\* C4: when the completion of the track is detected with the cursor on
\* entry i of n, the advance moves the cursor to i+1 and issues the play of
\* that entry if i < n-1; on the last entry the cursor stays, nothing is
\* played and playback does not wrap to entry 0.
C4_AdvanceOnCompletion ==
  LET n == Len(Tracks) IN
  lastOp = "AutoAdvance" /\ 0 <= prevIndex /\ prevIndex < n =>
    IF prevIndex < n - 1
      THEN CurrentIndex = prevIndex + 1 /\ PlayIssued(Tracks[prevIndex + 2])
      ELSE CurrentIndex = prevIndex /\ \A track \in Library : ~PlayIssued(track)

\* C28: an error value a command returned, when Update receives it, is
\* recorded as the last error of the model and leaves the playback state
\* and the queue as they were; the program goes on.
C28_ErrorRecorded ==
  [][lastOp' \in {"error", "stopError"} =>
       /\ Error'
       /\ ~panicked'
       /\ UNCHANGED <<playerVars, queueVars>>]_vars


(***************************************************************************)
(* SpecPlaylist: the PlaylistManager (playlist.go:18-108).  No playlist is *)
(* made active here; SpecActive adds SetActivePlaylist and the cursor.     *)
(* RemoveFromPlaylistCmd (commands.go:202-221) is left out: the            *)
(* Playlist.Length it calls before RemoveTrack is not part of the source.  *)
(***************************************************************************)
PlaylistIds == 0..MaxPlaylists
RECURSIVE TrackCount(_)
TrackCount(pls) ==
  IF pls = <<>> THEN 0 ELSE Len(Head(pls).Tracks) + TrackCount(Tail(pls))
TrackIndexes == (0 - 1)..MaxPlaylistTracks
NewTracks == {<<t>> : t \in Library} \cup {<<t, u>> : t \in Library, u \in Library}

\* GetPlaylist: the place of the first playlist with the ID, 0 for the error
GetPlaylist(pls, id) ==
  IF \E k \in 1..Len(pls) : pls[k].ID = id
  THEN CHOOSE k \in 1..Len(pls) :
         pls[k].ID = id /\ \A j \in 1..(k - 1) : pls[j].ID # id
  ELSE 0

\* "trackIndex < 0 || trackIndex >= len(playlist.Tracks)"
IndexOutOfRange_UpToLen(trackIndex, len) == trackIndex < 0 \/ trackIndex > len
IndexOutOfRange(trackIndex, len) == trackIndex < 0 \/ trackIndex >= len

\* RemoveTrack: the error it returns and the playlists it leaves; trackIndex
\* counts from 0 as in the source, places in Tracks count from 1
RemoveTrack(pls, playlistID, trackIndex) ==
  LET k == GetPlaylist(pls, playlistID) IN
  IF k = 0
  THEN [err |-> TRUE, Playlists |-> pls]
  ELSE IF IndexOutOfRange(trackIndex, Len(pls[k].Tracks))
  THEN [err |-> TRUE, Playlists |-> pls]
  ELSE [err |-> FALSE,
        Playlists |-> [pls EXCEPT ![k].Tracks = RemoveAt(@, trackIndex + 1)]]

idlePlaylist == <<playerVars, loopVars, queueVars, histVars, scanVars>>

CreatePlaylist ==
  /\ ~panicked
  /\ \E name \in {"", "My Playlist"} :
       IF name = ""
       THEN /\ lastOp' = "CreatePlaylistError"
            /\ UNCHANGED playlistVars
       ELSE /\ lastID < MaxPlaylists
            /\ lastID' = lastID + 1
            /\ Playlists' = Append(Playlists, [ID |-> lastID + 1, Tracks |-> <<>>])
            /\ lastOp' = "CreatePlaylist"
            /\ UNCHANGED activeVars
  /\ UNCHANGED idlePlaylist

DeletePlaylist ==
  /\ ~panicked
  /\ \E id \in PlaylistIds :
       LET k == GetPlaylist(Playlists, id) IN
       IF k = 0
       THEN /\ lastOp' = "DeletePlaylistError"
            /\ UNCHANGED <<Playlists, activeVars>>
       ELSE /\ IF ActivePlaylist # Nil /\ ActivePlaylist = id
                 THEN ActivePlaylist' = Nil /\ ActiveTrackIdx' = 0
                 ELSE UNCHANGED activeVars
            /\ Playlists' = RemoveAt(Playlists, k)
            /\ lastOp' = "DeletePlaylist"
  /\ UNCHANGED <<lastID, idlePlaylist>>

AddTracks ==
  /\ ~panicked
  /\ \E id \in PlaylistIds, tracks \in NewTracks :
       LET k == GetPlaylist(Playlists, id) IN
       IF k = 0
       THEN /\ lastOp' = "AddTracksError"
            /\ UNCHANGED Playlists
       ELSE /\ TrackCount(Playlists) + Len(tracks) <= MaxPlaylistTracks
            /\ Playlists' = [Playlists EXCEPT ![k].Tracks = @ \o tracks]
            /\ lastOp' = "AddTracks"
  /\ UNCHANGED <<lastID, activeVars, idlePlaylist>>

DoRemoveTrack ==
  /\ ~panicked
  /\ \E id \in PlaylistIds, trackIndex \in TrackIndexes :
       LET r == RemoveTrack(Playlists, id, trackIndex) IN
       /\ Playlists' = r.Playlists
       /\ lastOp' = IF r.err THEN "RemoveTrackError" ELSE "RemoveTrack"
  /\ UNCHANGED <<lastID, activeVars, idlePlaylist>>

NextPlaylist ==
  \/ CreatePlaylist
  \/ DeletePlaylist
  \/ AddTracks
  \/ DoRemoveTrack

SpecPlaylist == Init /\ [][NextPlaylist]_vars

RemovedAt(old, new, place) ==
  /\ Len(new) = Len(old) - 1
  /\ \A j \in 1..Len(new) : new[j] = IF j < place THEN old[j] ELSE old[j + 1]

\* C29: RemoveTrack with an unknown playlist ID or with an index outside
\* [0, len(tracks)) returns an error and leaves every playlist's tracks as
\* they were; with a known ID and an index inside the range it returns no
\* error, removes the track at that index from that playlist, keeps the other
\* tracks in their order and leaves the other playlists alone.
C29_RemoveTrackContract ==
  [][lastOp' \in {"RemoveTrack", "RemoveTrackError"} =>
       /\ lastOp' = "RemoveTrackError" => Playlists' = Playlists
       /\ lastOp' = "RemoveTrack" =>
            \E k \in 1..Len(Playlists) : \E place \in 1..Len(Playlists[k].Tracks) :
              /\ Len(Playlists') = Len(Playlists)
              /\ RemovedAt(Playlists[k].Tracks, Playlists'[k].Tracks, place)
              /\ \A j \in 1..Len(Playlists) :
                   /\ Playlists'[j].ID = Playlists[j].ID
                   /\ j # k => Playlists'[j].Tracks = Playlists[j].Tracks
       /\ \A id \in PlaylistIds, trackIndex \in TrackIndexes :
            LET r == RemoveTrack(Playlists, id, trackIndex)
                known == {k \in 1..Len(Playlists) : Playlists[k].ID = id}
            IN IF known = {} \/ \A k \in known :
                    trackIndex < 0 \/ trackIndex >= Len(Playlists[k].Tracks)
               THEN r.err /\ r.Playlists = Playlists
               ELSE /\ ~r.err
                    /\ Len(r.Playlists) = Len(Playlists)
                    /\ \A j \in 1..Len(Playlists) :
                         /\ r.Playlists[j].ID = Playlists[j].ID
                         /\ r.Playlists[j].Tracks =
                              IF j \in known
                              THEN RemoveAt(Playlists[j].Tracks, trackIndex + 1)
                              ELSE Playlists[j].Tracks
                         /\ j \in known =>
                              RemovedAt(Playlists[j].Tracks, r.Playlists[j].Tracks,
                                        trackIndex + 1)]_vars

C29_Witness ==
  /\ lastOp = "RemoveTrack"
  /\ Len(Playlists) = 2
  /\ Len(Playlists[1].Tracks) = 2
  /\ Playlists[2].Tracks # <<>>


(***************************************************************************)
(* SpecScan: GetAudioRows (util/audio.go:168-243), called once by          *)
(* NewMusicPlayer, with readAudioMetadata (util/audio.go:73-135).  An      *)
(* entry of the directory is named by its place; its path is the directory *)
(* joined with that name, so paths are as distinct as the names are.       *)
(* A worker's read of the cache, of the file and its write to the cache    *)
(* are one step: workers of one scan work on different paths.              *)
(***************************************************************************)
DirEntryKinds ==
  { [isDir |-> TRUE,  ext |-> ".mp3", corrupt |-> FALSE],
    [isDir |-> FALSE, ext |-> ".txt", corrupt |-> FALSE],
    [isDir |-> FALSE, ext |-> ".mp3", corrupt |-> FALSE],
    [isDir |-> FALSE, ext |-> ".MP3", corrupt |-> TRUE] }
DirLists == UNION {[1..n -> DirEntryKinds] : n \in 0..MaxEntries}

ToLower(ext) == IF ext = ".MP3" THEN ".mp3" ELSE ext
isAudioFile(ext) == ToLower(ext) = ".mp3"

NoResult == [row |-> Nil, path |-> Nil]
FallbackRow(defaultName) ==
  [title |-> defaultName, artist |-> "Unknown", album |-> "Unknown", duration |-> "0:00"]
TagRow == [title |-> "Title", artist |-> "Artist", album |-> "Album", duration |-> "03:00"]

\* readAudioMetadata: the row it returns and the cache it leaves
readAudioMetadata(cache, path, defaultName, corrupt) ==
  IF path \in DOMAIN cache
  THEN [row |-> cache[path], cache |-> cache]
  ELSE IF corrupt
  THEN [row |-> FallbackRow(defaultName), cache |-> cache]
  ELSE [row |-> TagRow,
        cache |-> [p \in DOMAIN cache \cup {path} |-> IF p = path THEN TagRow ELSE cache[p]]]

\* "wg.Wait()" returns
WaitReturns_AtOnce(counter) == TRUE
WaitReturns(counter) == counter = 0

\* the loop "Filter out empty entries"
RECURSIVE FilterRows(_, _)
FilterRows(temp, i) ==
  IF i > Len(temp) THEN <<>>
  ELSE (IF temp[i].path # Nil THEN <<temp[i]>> ELSE <<>>) \o FilterRows(temp, i + 1)

idleScan == <<engineVars, streamVars, cbVars, loopVars, queueVars, histVars, playlistVars>>

\* GetAudioRows up to its loop: os.ReadDir and the channel
ScanStart ==
  /\ scanPc = "idle"
  /\ \E list \in DirLists, readDirOk \in BOOLEAN :
       IF readDirOk
       THEN /\ scanPc' = "launch"
            /\ dirEntries' = list
            /\ scanI' = 1
            /\ workerPc' = [i \in 1..Len(list) |-> "none"]
            /\ workerRow' = [i \in 1..Len(list) |-> Nil]
            /\ tempRows' = [i \in 1..Len(list) |-> NoResult]
            /\ lastOp' = "ReadDir"
       ELSE /\ scanPc' = "failed"
            /\ lastOp' = "ReadDirError"
            /\ UNCHANGED <<dirEntries, scanI, workerPc, workerRow, tempRows>>
  /\ UNCHANGED <<wg, results, resultsClosed, audioRows, metadataCache, received,
                 panicked, idleScan>>

\* one turn of "for i, entry := range entries", and the start of the goroutine
\* that closes the channel when the loop is over
LaunchStep ==
  /\ scanPc = "launch"
  /\ ~panicked
  /\ IF scanI > Len(dirEntries)
     THEN /\ scanPc' = "collect"
          /\ UNCHANGED <<scanI, wg, workerPc>>
     ELSE /\ scanI' = scanI + 1
          /\ IF dirEntries[scanI].isDir \/ ~isAudioFile(dirEntries[scanI].ext)
             THEN UNCHANGED <<wg, workerPc>>
             ELSE /\ wg' = wg + 1
                  /\ workerPc' = [workerPc EXCEPT ![scanI] = "read"]
          /\ UNCHANGED scanPc
  /\ lastOp' = "launch"
  /\ UNCHANGED <<dirEntries, workerRow, results, resultsClosed, tempRows, audioRows,
                 metadataCache, received, panicked, idleScan>>

\* a worker calls readAudioMetadata
WorkerRead ==
  /\ ~panicked
  /\ \E idx \in 1..Len(dirEntries) :
       /\ workerPc[idx] = "read"
       /\ LET r == readAudioMetadata(metadataCache, idx, idx, dirEntries[idx].corrupt) IN
            /\ workerRow' = [workerRow EXCEPT ![idx] = r.row]
            /\ metadataCache' = r.cache
       /\ workerPc' = [workerPc EXCEPT ![idx] = "send"]
  /\ lastOp' = "readAudioMetadata"
  /\ UNCHANGED <<scanPc, dirEntries, scanI, wg, results, resultsClosed, tempRows,
                 audioRows, received, panicked, idleScan>>

\* a worker sends its result and returns: "results <- result{...}", wg.Done()
WorkerSend ==
  /\ ~panicked
  /\ \E idx \in 1..Len(dirEntries) :
       /\ workerPc[idx] = "send"
       /\ IF resultsClosed
          THEN /\ panicked' = TRUE
               /\ UNCHANGED <<results, wg, workerPc>>
          ELSE /\ results' = Append(results, [row |-> workerRow[idx], path |-> idx, index |-> idx])
               /\ wg' = wg - 1
               /\ workerPc' = [workerPc EXCEPT ![idx] = "done"]
               /\ UNCHANGED panicked
  /\ lastOp' = "send"
  /\ UNCHANGED <<scanPc, dirEntries, scanI, workerRow, resultsClosed, tempRows,
                 audioRows, metadataCache, received, idleScan>>

\* "go func() { wg.Wait(); close(results) }()"
CloseResults ==
  /\ ~panicked
  /\ scanPc = "collect"
  /\ ~resultsClosed
  /\ WaitReturns(wg)
  /\ resultsClosed' = TRUE
  /\ lastOp' = "close"
  /\ UNCHANGED <<scanPc, dirEntries, scanI, wg, workerPc, workerRow, results, tempRows,
                 audioRows, metadataCache, received, panicked, idleScan>>

\* one turn of "for res := range results"
CollectResult ==
  /\ ~panicked
  /\ scanPc = "collect"
  /\ results # <<>>
  /\ tempRows' = [tempRows EXCEPT ![Head(results).index] =
                    [row |-> Head(results).row, path |-> Head(results).path]]
  /\ results' = Tail(results)
  /\ received' = Append(received, Head(results).index)
  /\ lastOp' = "receive"
  /\ UNCHANGED <<scanPc, dirEntries, scanI, wg, workerPc, workerRow, resultsClosed,
                 audioRows, metadataCache, panicked, idleScan>>

\* the range loop ends on the closed, drained channel; filter and return
ScanReturn ==
  /\ ~panicked
  /\ scanPc = "collect"
  /\ results = <<>>
  /\ resultsClosed
  /\ audioRows' = FilterRows(tempRows, 1)
  /\ scanPc' = "done"
  /\ lastOp' = "GetAudioRows"
  /\ UNCHANGED <<dirEntries, scanI, wg, workerPc, workerRow, results, resultsClosed,
                 tempRows, metadataCache, received, panicked, idleScan>>

NextScan ==
  \/ ScanStart
  \/ LaunchStep
  \/ WorkerRead
  \/ WorkerSend
  \/ CloseResults
  \/ CollectResult
  \/ ScanReturn

SpecScan == Init /\ [][NextScan]_vars

AudioFiles ==
  {i \in 1..Len(dirEntries) :
     ~dirEntries[i].isDir /\ dirEntries[i].ext \in {".mp3", ".MP3"}}

\* C30: a scan that has returned holds one entry for each file of the
\* directory with the supported extension and no other entry, whatever the
\* order in which the workers read and sent; the entry of a file whose
\* metadata could not be read holds the fallback values; no worker failure
\* makes the scan fail or the program panic.
C30_OneEntryPerAudioFile ==
  /\ ~panicked
  /\ scanPc = "failed" => dirEntries = <<>> /\ lastOp = "ReadDirError"
  /\ scanPc = "done" =>
       /\ Len(audioRows) = Cardinality(AudioFiles)
       /\ \A i \in AudioFiles :
            Cardinality({k \in 1..Len(audioRows) : audioRows[k].path = i}) = 1
       /\ \A k \in 1..Len(audioRows) :
            /\ audioRows[k].path \in AudioFiles
            /\ dirEntries[audioRows[k].path].corrupt =>
                 audioRows[k].row = FallbackRow(audioRows[k].path)
            /\ ~dirEntries[audioRows[k].path].corrupt => audioRows[k].row = TagRow

C30_Witness ==
  /\ scanPc = "done"
  /\ Len(dirEntries) = 3
  /\ Cardinality(AudioFiles) = 2
  /\ \E i, j \in AudioFiles : dirEntries[i].corrupt /\ ~dirEntries[j].corrupt
  /\ Len(received) = 2
  /\ received[1] > received[2]
  /\ Len(audioRows) = 2


(***************************************************************************)
(* SpecReplace: the AudioPlayer of audio_player.go:1-160 called directly,  *)
(* one track replacing another.  Its Stop closes the decoder and leaves    *)
(* the streamer with the speaker; the callbacks are those of SpecLegacy.   *)
(***************************************************************************)
\* AudioPlayer.Play of audio_player.go:41-97.  openOk is the outcome of
\* util.OpenAudioFile; speaker.Play takes the speaker lock.
LegacyPlay ==
  /\ ~panicked
  /\ cbPc = "idle"
  /\ \E t \in Library, openOk \in BOOLEAN :
       LET stopFirst == IsPlaying
           s == nextId + 1
           openAfter == IF stopFirst THEN LegacyStopOpen ELSE open
           posAfter == IF stopFirst THEN LegacyStopPos ELSE pos
           lenAfter == IF stopFirst THEN LegacyStopLen ELSE slen
       IN
       IF openOk
         THEN /\ nextId < MaxOpens
              /\ CurrentStreamer' = s
              /\ TotalSamples' = TrackLen(t)
              /\ SamplesPlayed' = 0
              /\ PlayedTime' = 0
              /\ Volume' = s
              /\ Silent' = FALSE
              /\ Ctrl' = s
              /\ ctrlPaused' = [ctrlPaused EXCEPT ![s] = FALSE]
              /\ Playing' = TRUE
              /\ nextId' = s
              /\ open' = openAfter \cup {s}
              /\ slen' = [lenAfter EXCEPT ![s] = TrackLen(t)]
              /\ pos' = [posAfter EXCEPT ![s] = 0]
              /\ mixer' = mixer \cup {s}
              /\ lastOp' = "Play"
         ELSE /\ IF stopFirst
                   THEN /\ CurrentStreamer' = Nil
                        /\ Playing' = FALSE
                        /\ SamplesPlayed' = 0
                        /\ PlayedTime' = 0
                        /\ TotalSamples' = 0
                   ELSE UNCHANGED enginePlay
              /\ open' = openAfter
              /\ slen' = lenAfter
              /\ pos' = posAfter
              /\ lastOp' = "PlayFailed"
              /\ UNCHANGED <<Volume, Silent, Ctrl, ctrlPaused, nextId, mixer>>
  /\ UNCHANGED <<Gain, CurrentVolumePercent, doneChan, closeOnceDone, doneClosed, playWait>>
  /\ UNCHANGED <<cbVars, panicked, idleLoop>>

\* AudioPlayer.Stop of audio_player.go:106-115
LegacyStop ==
  /\ ~panicked
  /\ open' = LegacyStopOpen
  /\ pos' = LegacyStopPos
  /\ slen' = LegacyStopLen
  /\ CurrentStreamer' = Nil
  /\ Playing' = FALSE
  /\ SamplesPlayed' = 0
  /\ PlayedTime' = 0
  /\ TotalSamples' = 0
  /\ lastOp' = "Stop"
  /\ UNCHANGED <<engineChan, engineVol, nextId, ctrlPaused, mixer, doneClosed, playWait>>
  /\ UNCHANGED <<cbVars, panicked, idleLoop>>

NextReplace ==
  \/ LegacyPlay
  \/ LegacyStop
  \/ EnginePause
  \/ StreamBlock
  \/ LegacyCountBlock
  \/ LegacyStreamEnds

SpecReplace == Init /\ [][NextReplace]_vars

\* The callback that made the step belongs to a stream other than the one
\* the player refers to.
OldStreamCallback ==
  /\ CurrentStreamer # Nil
  /\ \/ lastOp' = "CallbackWrite" /\ cb.stream # CurrentStreamer
     \/ /\ lastOp' = "EndOfStream"
        /\ \E s \in mixer \ {CurrentStreamer} : mixer' = mixer \ {s}

\* C31: a sample-block callback or an end-of-stream callback of a stream
\* that Stop or a later Play has replaced changes neither Playing nor
\* SamplesPlayed of the track the player refers to now.
C31_OldCallbacksLeaveNewTrack ==
  [][OldStreamCallback => UNCHANGED <<Playing, SamplesPlayed>>]_vars


(***************************************************************************)
(* SpecPlayerLive: the AudioPlayer of audio_player.go:162-390 alone, with  *)
(* the scheduling the runtime gives: the speaker goroutine keeps calling   *)
(* back while a streamer can stream, and a goroutine blocked on a closed   *)
(* channel runs.  The user's calls (Play, Pause, Stop) are under no        *)
(* obligation.                                                             *)
(***************************************************************************)
NextPlayer ==
  \/ EnginePlay
  \/ PlayReturns
  \/ StreamBlock
  \/ CountBlock
  \/ StreamEnds
  \/ EnginePause
  \/ EngineStop

SpecPlayerLive ==
  /\ Init
  /\ [][NextPlayer]_vars
  /\ WF_vars(PlayReturns)
  /\ WF_vars(StreamBlock)
  /\ WF_vars(CountBlock)
  /\ WF_vars(StreamEnds)

\* The Play that opened stream s has nothing left to wait for: its stream
\* is no longer with the speaker (it ended or was stopped), or a later Play
\* has replaced its done channel.
PlayIsOver(s) == s \notin mixer \/ doneChan # s

\* C33: every Play waiting on its done channel returns once its track has
\* ended, has been stopped or has been replaced by a later Play, from
\* whatever state the later Play was issued; and no done channel is closed
\* twice (closing a closed channel panics).
C33_PlayReturns ==
  /\ \A s \in StreamIds : (s \in playWait /\ PlayIsOver(s)) ~> (s \notin playWait)
  /\ []~panicked


(***************************************************************************)
(* SpecLegacySkip: SkipForwardCmd(m) and SkipBackwardCmd(m) of             *)
(* commands.go:629-671 run on the AudioPlayer of audio_player.go:1-160.    *)
(* The value a command returns is kept in lastOp.                          *)
(***************************************************************************)
\* SkipForwardCmd(m) / SkipBackwardCmd(m).  speaker.Lock() waits for the
\* mutex; seekOk is the outcome of Seek on an accepted position.
RunLegacySkipCmd(forward, seekOk) ==
  IF CurrentStreamer = Nil
    THEN /\ lastOp' = "LegacySkipNoPlayback"
         /\ UNCHANGED <<pos, SamplesPlayed, PlayedTime, cbPc>>
    ELSE LET s == CurrentStreamer
             newPos == IF forward THEN SkipForwardPos(pos[s], slen[s])
                                  ELSE SkipBackwardPos(pos[s])
         IN /\ cbPc = "idle"
            /\ IF SeekFailed(SeekAccepted(s, newPos, seekOk))
                 THEN /\ cbPc' = "held"
                      /\ lastOp' = "LegacySkipSeekError"
                      /\ UNCHANGED <<pos, SamplesPlayed, PlayedTime>>
                 ELSE /\ pos' = [pos EXCEPT ![s] = newPos]
                      /\ PlayedTime' = DurationOf(newPos)
                      /\ SamplesPlayed' = newPos
                      /\ lastOp' = "LegacySkip"
                      /\ UNCHANGED cbPc

ExecLegacySkipCmd ==
  /\ ~panicked
  /\ \E forward \in BOOLEAN, seekOk \in BOOLEAN : RunLegacySkipCmd(forward, seekOk)
  /\ UNCHANGED <<CurrentStreamer, Playing, TotalSamples, engineChan, engineVol>>
  /\ UNCHANGED <<nextId, open, slen, ctrlPaused, mixer, doneClosed, playWait>>
  /\ UNCHANGED <<cb, panicked, idleLoop>>

NextLegacySkip ==
  \/ LegacyPlay
  \/ LegacyStop
  \/ StreamBlock
  \/ LegacyCountBlock
  \/ LegacyStreamEnds
  \/ ExecLegacySkipCmd

SpecLegacySkip == Init /\ [][NextLegacySkip]_vars

\* C34: whatever path a skip command takes, the seek failing included, it
\* has released the speaker mutex when it returns, so the callback and
\* later commands can take it again.
C34_SkipReleasesLock == cbPc # "held"


(***************************************************************************)
(* SpecVolumePlay: AudioPlayer.SetVolume between the tracks that           *)
(* AudioPlayer.Play of audio_player.go:222-276 starts one after another.   *)
(***************************************************************************)
NextVolumePlay ==
  \/ EnginePlay
  \/ PlayReturns
  \/ StreamBlock
  \/ CountBlock
  \/ StreamEnds
  \/ EngineStop
  \/ DoSetVolume

SpecVolumePlay == Init /\ [][NextVolumePlay]_vars

\* C37: the volume setting survives a track change: when a track has been
\* started, SetVolume is called and Play then starts another track, the
\* gain transform of the new track corresponds to the stored volumePercent:
\* silent when it is 0, else not silent and at the gain of that level.
C37_VolumeSurvivesPlay ==
  [][lastOp = "SetVolume" /\ Volume # Nil /\ lastOp' = "Play" =>
       /\ CurrentVolumePercent' = CurrentVolumePercent
       /\ CurrentVolumePercent' <= 0 => Silent'
       /\ CurrentVolumePercent' > 0 =>
            ~Silent' /\ Gain' = GainOf(CurrentVolumePercent')]_vars


(***************************************************************************)
(* SpecAddTrack: the queue messages of Update (update.go:72-101) while a   *)
(* track plays.  The command HandlePlaybackFinished returns is kept in     *)
(* cmds and is not run.                                                    *)
(***************************************************************************)
\* The test "m.Queue.Length() == 1" after the Add.
StartsPlayback_NonEmpty(length) == length >= 1
StartsPlayback(length) == length = 1

\* Update, case addTrackToQueueMsg
UpdateAddTrackToQueueMsg(track) ==
  /\ QueueAdd(track)
  /\ cmds' = IF StartsPlayback(Len(Tracks'))
               THEN Append(cmds, Cmd("HandlePlaybackFinished", 0))
               ELSE cmds
  /\ UNCHANGED <<msgs, modelVars, playerVars>>

HandleAddTrackToQueueMsg ==
  /\ ~panicked
  /\ Len(Tracks) < MaxQueueLen
  /\ Len(cmds) < MaxStarts
  /\ \E track \in Library : UpdateAddTrackToQueueMsg(track)
  /\ lastOp' = "addTrackToQueueMsg"
  /\ UNCHANGED <<engineVars, streamVars, cbVars, volHist, advances, libVars>>

NextAddTrack ==
  \/ HandleAddTrackToQueueMsg
  \/ HandleRemoveTrackFromQueueMsg
  \/ HandleClearQueueMsg
  \/ DoNext
  \/ Play
  \/ StreamBlock
  \/ CountBlock
  \/ StreamEnds

SpecAddTrack == Init /\ [][NextAddTrack]_vars

\* C38: handling an add-to-queue message appends the track at the end of
\* the queue; it issues the start-playback decision exactly when the queue
\* holds one track after the add, and when the queue held tracks before it
\* issues nothing and leaves the cursor and the playback state unchanged.
C38_AddTriggersStart ==
  [][lastOp' = "addTrackToQueueMsg" =>
       /\ \E track \in Library : Tracks' = Append(Tracks, track)
       /\ IF Len(Tracks') = 1
            THEN cmds' = Append(cmds, Cmd("HandlePlaybackFinished", 0))
            ELSE cmds' = cmds
       /\ Len(Tracks) > 0 =>
            /\ CurrentIndex' = CurrentIndex
            /\ UNCHANGED <<playerVars, msgs>>]_vars

\* A second track has just been added while a track is playing: the
\* decision issued for the first add is still the only one.
C38_Witness ==
  /\ lastOp = "addTrackToQueueMsg"
  /\ Len(Tracks) = 2
  /\ Len(cmds) = 1
  /\ Playing
  /\ SamplesPlayed > 0


(***************************************************************************)
(* SpecActive: the PlaylistManager with its active playlist and the cursor *)
(* ActiveTrackIdx (playlist.go:50-146).  ActivePlaylist points to the      *)
(* Playlist object that is also in Playlists, so a change of that          *)
(* playlist's Tracks is a change of the active playlist's.                 *)
(***************************************************************************)
\* pm.ActivePlaylist.Tracks
ActiveTracks ==
  LET k == GetPlaylist(Playlists, ActivePlaylist) IN
  IF ActivePlaylist = Nil \/ k = 0 THEN <<>> ELSE Playlists[k].Tracks

\* "pm.ActivePlaylist.Tracks[pm.ActiveTrackIdx]" panics
ActiveIndexPanics(idx) == idx < 0 \/ idx >= Len(ActiveTracks)

idleActive ==
  <<engineVars, streamVars, cbVars, loopVars, queueVars, histVars, scanVars>>

SetActivePlaylist ==
  /\ ~panicked
  /\ \E id \in PlaylistIds :
       IF GetPlaylist(Playlists, id) = 0
       THEN /\ lastOp' = "SetActivePlaylistError"
            /\ UNCHANGED activeVars
       ELSE /\ ActivePlaylist' = id
            /\ ActiveTrackIdx' = 0
            /\ lastOp' = "SetActivePlaylist"
  /\ UNCHANGED <<Playlists, lastID, panicked, idleActive>>

NextTrack ==
  /\ ~panicked
  /\ IF ActivePlaylist = Nil \/ Len(ActiveTracks) = 0
       THEN /\ lastOp' = "NextTrackError"
            /\ UNCHANGED ActiveTrackIdx
       ELSE /\ ActiveTrackIdx' = (ActiveTrackIdx + 1) % Len(ActiveTracks)
            /\ lastOp' = "NextTrack"
  /\ UNCHANGED <<Playlists, lastID, ActivePlaylist, panicked, idleActive>>

PreviousTrack ==
  /\ ~panicked
  /\ IF ActivePlaylist = Nil \/ Len(ActiveTracks) = 0
       THEN /\ lastOp' = "PreviousTrackError"
            /\ UNCHANGED <<ActiveTrackIdx, panicked>>
       ELSE LET idx == IF ActiveTrackIdx - 1 < 0 THEN Len(ActiveTracks) - 1
                                                 ELSE ActiveTrackIdx - 1
            IN /\ ActiveTrackIdx' = idx
               /\ panicked' = ActiveIndexPanics(idx)
               /\ lastOp' = "PreviousTrack"
  /\ UNCHANGED <<Playlists, lastID, ActivePlaylist, idleActive>>

GetCurrentTrack ==
  /\ ~panicked
  /\ IF ActivePlaylist = Nil \/ Len(ActiveTracks) = 0
       THEN /\ lastOp' = "GetCurrentTrackError"
            /\ UNCHANGED panicked
       ELSE /\ panicked' = ActiveIndexPanics(ActiveTrackIdx)
            /\ lastOp' = "GetCurrentTrack"
  /\ UNCHANGED <<playlistVars, idleActive>>

NextActive ==
  \/ CreatePlaylist
  \/ DeletePlaylist
  \/ AddTracks
  \/ DoRemoveTrack
  \/ SetActivePlaylist
  \/ NextTrack
  \/ PreviousTrack
  \/ GetCurrentTrack

SpecActive == Init /\ [][NextActive]_vars

\* C39: whenever the active playlist holds tracks the cursor is an index of
\* one of them, 0 <= ActiveTrackIdx < len(ActivePlaylist.Tracks), and
\* GetCurrentTrack has not indexed out of range.
C39_ActiveCursorInRange ==
  /\ ActivePlaylist # Nil /\ Len(ActiveTracks) > 0 =>
       0 <= ActiveTrackIdx /\ ActiveTrackIdx < Len(ActiveTracks)
  /\ ~panicked

====
